---------------------------- MODULE Spec2Model ----------------------------
(***************************************************************************)
(* Semantic Control Encoding (sce) core: the canonical ontology, the index  *)
(* builder, the ontology interpreter (resolver) with its lazily created     *)
(* default instance, and the ontology validator.                            *)
(*                                                                          *)
(* Strings that are searched or compared code unit by code unit (emoji,     *)
(* texts) are sequences of UTF-16 code units.  Objects (symbol definitions, *)
(* arrays, interpreters, Maps returned by copyIndex) live in heaps and are  *)
(* referred to by their position, so that reference identity and aliasing   *)
(* are part of the state.                                                   *)
(***************************************************************************)
EXTENDS Integers, Sequences, FiniteSets, TLC

(***************************************************************************)
(* Bounds of the model.                                                     *)
(***************************************************************************)
MaxDefs == 3
MaxIndexDefs == 2
MaxListLen == 3
MaxTextLen == 3
MaxInterpreters == 2
MaxSnapshots == 1
MaxMutations == 2
MaxArgs == 2
MaxWords == 2

(***************************************************************************)
(* JavaScript values.                                                       *)
(***************************************************************************)
\* `undefined` where a string (sequence of code units) is expected; no code
\* unit is negative, so this is no string.
Undefined == << -1 >>

\* String(undefined): the code units of "undefined".
UndefinedText == << 117, 110, 100, 101, 102, 105, 110, 101, 100 >>

\* A field that should hold an array but is absent, or holds a non-array.
AbsentArray == 0
NotAnArray == 0 - 1

\* The 8 categories of SceOntologyBase, in declaration order.
CategoryNames ==
  << "structure", "legalPolicy", "reasoning", "tasks",
     "privacy", "actors", "state", "control" >>

(***************************************************************************)
(* The canonical ontology, as declared (ontology.ts).                       *)
(***************************************************************************)
SemanticOntologySchema ==
  <<
    [name |-> "structure", entries |-> <<
      [key |-> "section", def |->
        [emoji |-> << 55357, 56770, 65039 >>, role |-> "STRUCTURE",
         meaning |-> "Section divider for major document or prompt segments",
         allowedContext |-> << "HUMAN", "LLM" >>, usage |-> "OPTIONAL",
         conflictsWith |-> << << 55357, 56524 >>, << 55357, 56526 >> >>,
         example |-> "\\ud83d\\uddc2\\ufe0f Investigation Timeline"]],
      [key |-> "pinned", def |->
        [emoji |-> << 55357, 56524 >>, role |-> "STRUCTURE",
         meaning |-> "Pinned fact or non-negotiable constraint that must remain true",
         allowedContext |-> << "HUMAN", "LLM" >>, usage |-> "REQUIRED",
         conflictsWith |-> << << 55357, 56770, 65039 >>, << 55357, 56526 >> >>,
         example |-> "\\ud83d\\udccc Student was injured on 11/06/24 while on school grounds."]],
      [key |-> "reference", def |->
        [emoji |-> << 55357, 56526 >>, role |-> "STRUCTURE",
         meaning |-> "Reference or citation marker to a document, exhibit, or source",
         allowedContext |-> << "HUMAN", "LLM", "TOOL" >>, usage |-> "OPTIONAL",
         conflictsWith |-> << << 55357, 56770, 65039 >>, << 55357, 56524 >> >>,
         example |-> "\\ud83d\\udcce See Incident Report #14 for witness statements."]]
    >>],
    [name |-> "legalPolicy", entries |-> <<
      [key |-> "law", def |->
        [emoji |-> << 9878, 65039 >>, role |-> "LEGAL",
         meaning |-> "Legal framework or authority governing the analysis",
         allowedContext |-> << "HUMAN", "LLM" >>, usage |-> "CONDITIONAL",
         conflictsWith |-> << >>,
         example |-> "\\u2696\\ufe0f Title IX \\u00a7106.45 governs the grievance process."]],
      [key |-> "citation", def |->
        [emoji |-> << 55357, 56540 >>, role |-> "LEGAL",
         meaning |-> "Citation of a statute, regulation, or formal policy text",
         allowedContext |-> << "HUMAN", "LLM" >>, usage |-> "OPTIONAL",
         conflictsWith |-> << >>,
         example |-> "\\ud83d\\udcdc 34 C.F.R. \\u00a7 99.10 describes the right to inspect education records."]],
      [key |-> "complianceRecord", def |->
        [emoji |-> << 55358, 56830 >>, role |-> "LEGAL",
         meaning |-> "Evidence of compliance, notification, or record of an action taken",
         allowedContext |-> << "HUMAN", "LLM", "TOOL" >>, usage |-> "OPTIONAL",
         conflictsWith |-> << >>,
         example |-> "\\ud83e\\uddfe Written notice of allegations was sent to the complainant on 11/20/24."]],
      [key |-> "institutionAuthority", def |->
        [emoji |-> << 55356, 57307, 65039 >>, role |-> "LEGAL",
         meaning |-> "Institution, enforcement body, or formal authority involved in the matter",
         allowedContext |-> << "HUMAN", "LLM" >>, usage |-> "OPTIONAL",
         conflictsWith |-> << >>,
         example |-> "\\ud83c\\udfdb\\ufe0f The Office for Civil Rights (OCR) may review the district\\u2019s conduct."]]
    >>],
    [name |-> "reasoning", entries |-> <<
      [key |-> "analyze", def |->
        [emoji |-> << 55357, 56589 >>, role |-> "REASONING",
         meaning |-> "Analysis, search, or inspection of facts or records",
         allowedContext |-> << "HUMAN", "LLM", "TOOL" >>, usage |-> "OPTIONAL",
         conflictsWith |-> << << 9989 >>, << 9745, 65039 >> >>,
         example |-> "\\ud83d\\udd0d Verify whether all witnesses identified by the complainant were interviewed."]],
      [key |-> "insight", def |->
        [emoji |-> << 55358, 56800 >>, role |-> "REASONING",
         meaning |-> "Reasoning, interpretation, or insight based on established facts",
         allowedContext |-> << "HUMAN", "LLM" >>, usage |-> "OPTIONAL",
         conflictsWith |-> << << 55357, 56524 >> >>,
         example |-> "\\ud83e\\udde0 The delay in providing records suggests potential non-compliance with FERPA timelines."]],
      [key |-> "investigate", def |->
        [emoji |-> << 55357, 56693, 65039 >>, role |-> "REASONING",
         meaning |-> "Investigative step, determination required, or unresolved question",
         allowedContext |-> << "HUMAN", "LLM", "TOOL" >>, usage |-> "CONDITIONAL",
         conflictsWith |-> << << 9989 >> >>,
         example |-> "\\ud83d\\udd75\\ufe0f Determine whether a mandated reporter submitted a maltreatment report after the incident."]]
    >>],
    [name |-> "tasks", entries |-> <<
      [key |-> "action", def |->
        [emoji |-> << 55357, 56541 >>, role |-> "TASK",
         meaning |-> "Actionable instruction or task that should be performed",
         allowedContext |-> << "HUMAN", "LLM", "TOOL" >>, usage |-> "REQUIRED",
         conflictsWith |-> << << 55357, 56524 >> >>,
         example |-> "\\ud83d\\udcdd Notify the complainant in writing of available supportive measures."]],
      [key |-> "todo", def |->
        [emoji |-> << 9744 >>, role |-> "TASK",
         meaning |-> "Unchecked task or item that has not yet been started",
         allowedContext |-> << "HUMAN", "LLM" >>, usage |-> "CONDITIONAL",
         conflictsWith |-> << << 9745, 65039 >>, << 9989 >> >>,
         example |-> "\\u2610 Document all interim measures offered to the complainant."]],
      [key |-> "softComplete", def |->
        [emoji |-> << 9745, 65039 >>, role |-> "TASK",
         meaning |-> "Task marked as completed but not yet formally verified",
         allowedContext |-> << "HUMAN", "LLM" >>, usage |-> "CONDITIONAL",
         conflictsWith |-> << << 9744 >>, << 9989 >> >>,
         example |-> "\\u2611\\ufe0f Drafted written notice of allegations (awaiting legal review)."]],
      [key |-> "complete", def |->
        [emoji |-> << 9989 >>, role |-> "TASK",
         meaning |-> "Task fully completed and verified as compliant",
         allowedContext |-> << "HUMAN", "LLM", "TOOL" >>, usage |-> "CONDITIONAL",
         conflictsWith |-> << << 9744 >>, << 9745, 65039 >>, << 55357, 56693, 65039 >> >>,
         example |-> "\\u2705 Provided final written determination to both parties."]],
      [key |-> "repeat", def |->
        [emoji |-> << 55357, 56577 >>, role |-> "TASK",
         meaning |-> "Repeat, retry, or recurring procedural step",
         allowedContext |-> << "HUMAN", "LLM" >>, usage |-> "OPTIONAL",
         conflictsWith |-> << >>,
         example |-> "\\ud83d\\udd01 Review supportive measures every 30 days for continued adequacy."]]
    >>],
    [name |-> "privacy", entries |-> <<
      [key |-> "private", def |->
        [emoji |-> << 55357, 56592 >>, role |-> "PRIVACY",
         meaning |-> "Protected or sensitive information subject to privacy laws",
         allowedContext |-> << "HUMAN", "LLM", "TOOL" >>, usage |-> "CONDITIONAL",
         conflictsWith |-> << << 55357, 56595 >> >>,
         example |-> "\\ud83d\\udd10 Do not store student medical information in this task list."]],
      [key |-> "authorized", def |->
        [emoji |-> << 55357, 56797, 65039 >>, role |-> "PRIVACY",
         meaning |-> "Authorized access exists under applicable privacy rules",
         allowedContext |-> << "HUMAN", "LLM", "TOOL" >>, usage |-> "OPTIONAL",
         conflictsWith |-> << >>,
         example |-> "\\ud83d\\udddd\\ufe0f Parent access is permitted under FERPA and MN Statute 13."]],
      [key |-> "open", def |->
        [emoji |-> << 55357, 56595 >>, role |-> "PRIVACY",
         meaning |-> "Information is open, non-sensitive, or publicly available",
         allowedContext |-> << "HUMAN", "LLM", "TOOL" >>, usage |-> "CONDITIONAL",
         conflictsWith |-> << << 55357, 56592 >> >>,
         example |-> "\\ud83d\\udd13 Public policies may be quoted or stored without redaction."]]
    >>],
    [name |-> "actors", entries |-> <<
      [key |-> "generic", def |->
        [emoji |-> << 55357, 56420 >>, role |-> "ACTOR",
         meaning |-> "Generic person or actor with unspecified role",
         allowedContext |-> << "HUMAN", "LLM" >>, usage |-> "OPTIONAL",
         conflictsWith |-> << << 55358, 56785, 8205, 55356, 57235 >>, << 55358, 56785, 8205, 55356, 57323 >>, << 55358, 56785, 8205, 9878, 65039 >> >>,
         example |-> "\\ud83d\\udc64 A witness reported seeing the incident."]],
      [key |-> "student", def |->
        [emoji |-> << 55358, 56785, 8205, 55356, 57235 >>, role |-> "ACTOR",
         meaning |-> "Student (complainant, respondent, or peer)",
         allowedContext |-> << "HUMAN", "LLM" >>, usage |-> "CONDITIONAL",
         conflictsWith |-> << << 55357, 56420 >> >>,
         example |-> "\\ud83e\\uddd1\\u200d\\ud83c\\udf93 The complainant reported ongoing unwanted touching."]],
      [key |-> "teacher", def |->
        [emoji |-> << 55358, 56785, 8205, 55356, 57323 >>, role |-> "ACTOR",
         meaning |-> "Teacher, staff member, or school employee",
         allowedContext |-> << "HUMAN", "LLM" >>, usage |-> "CONDITIONAL",
         conflictsWith |-> << << 55357, 56420 >> >>,
         example |-> "\\ud83e\\uddd1\\u200d\\ud83c\\udfeb The supervising teacher reports not observing the incident."]],
      [key |-> "legalAuthority", def |->
        [emoji |-> << 55358, 56785, 8205, 9878, 65039 >>, role |-> "ACTOR",
         meaning |-> "Investigatior, decision-maker, or adjudicator",
         allowedContext |-> << "HUMAN", "LLM" >>, usage |-> "OPTIONAL",
         conflictsWith |-> << << 55357, 56420 >> >>,
         example |-> "\\ud83e\\uddd1\\u200d\\u2696\\ufe0f The decision-maker must evaluate the evidence impartially."]],
      [key |-> "organization", def |->
        [emoji |-> << 55356, 57314 >>, role |-> "ACTOR",
         meaning |-> "Organization, district, school, or institution",
         allowedContext |-> << "HUMAN", "LLM" >>, usage |-> "OPTIONAL",
         conflictsWith |-> << >>,
         example |-> "\\ud83c\\udfe2 The district is responsible for maintaining investigation records."]]
    >>],
    [name |-> "state", entries |-> <<
      [key |-> "pending", def |->
        [emoji |-> << 9203 >>, role |-> "STATE",
         meaning |-> "Pending, in-progress, or awaiting dependency",
         allowedContext |-> << "HUMAN", "LLM", "TOOL" >>, usage |-> "CONDITIONAL",
         conflictsWith |-> << << 10060 >>, << 9989 >> >>,
         example |-> "\\u23f3 Awaiting response from the Title IX coordinator."]],
      [key |-> "unclear", def |->
        [emoji |-> << 10067 >>, role |-> "STATE",
         meaning |-> "Unclear, incomplete, or requiring clarification",
         allowedContext |-> << "HUMAN", "LLM" >>, usage |-> "CONDITIONAL",
         conflictsWith |-> << >>,
         example |-> "\\u2753 It is unclear whether a mandated report was filed."]],
      [key |-> "warning", def |->
        [emoji |-> << 9888, 65039 >>, role |-> "STATE",
         meaning |-> "Risk, concern, or exception requiring attention",
         allowedContext |-> << "HUMAN", "LLM" >>, usage |-> "CONDITIONAL",
         conflictsWith |-> << >>,
         example |-> "\\u26a0\\ufe0f No safety plan was implemented despite ongoing contact."]],
      [key |-> "prohibited", def |->
        [emoji |-> << 10060 >>, role |-> "STATE",
         meaning |-> "Prohibited, non-compliant, or invalid action or condition",
         allowedContext |-> << "HUMAN", "LLM" >>, usage |-> "CONDITIONAL",
         conflictsWith |-> << << 9989 >> >>,
         example |-> "\\u274c Dismissing the complaint without reviewing evidence violates procedure."]]
    >>],
    [name |-> "control", entries |-> <<
      [key |-> "decisionPoint", def |->
        [emoji |-> << 55357, 56576 >>, role |-> "CONTROL",
         meaning |-> "Decision point or branching logic in a process",
         allowedContext |-> << "HUMAN", "LLM" >>, usage |-> "OPTIONAL",
         conflictsWith |-> << >>,
         example |-> "\\ud83d\\udd00 If the respondent cannot be identified, follow alternative safety procedures."]],
      [key |-> "next", def |->
        [emoji |-> << 9197, 65039 >>, role |-> "CONTROL",
         meaning |-> "Move to the next step, phase, or workflow position",
         allowedContext |-> << "HUMAN", "LLM" >>, usage |-> "OPTIONAL",
         conflictsWith |-> << << 9198, 65039 >> >>,
         example |-> "\\u23ed\\ufe0f Continue to evaluate access to evidence."]],
      [key |-> "back", def |->
        [emoji |-> << 9198, 65039 >>, role |-> "CONTROL",
         meaning |-> "Return to a previous step or earlier context",
         allowedContext |-> << "HUMAN", "LLM" >>, usage |-> "OPTIONAL",
         conflictsWith |-> << << 9197, 65039 >> >>,
         example |-> "\\u23ee\\ufe0f Revisit the original complaint before continuing."]]
    >>]
  >>

(***************************************************************************)
(* Heaps.  A symbol definition object is a record of its seven fields; its  *)
(* two array fields hold references into the array heap (or AbsentArray /   *)
(* NotAnArray in a malformed record).                                       *)
(***************************************************************************)
VARIABLES
  defs,             \* heap of SceSymbolDefinition objects: Seq of records
  arrays,           \* heap of arrays: Seq of sequences
  customOntology,   \* the caller-supplied ontology object
  interpreters,     \* heap of SceOntologyInterpreter objects: Seq of [index]
  defaultInstance,  \* SceOntologyInterpreter.#defaultInstance: 0 is null
  snapshots,        \* Maps returned by copyIndex, in the caller's hands
  mutations,        \* number of caller mutations of snapshots so far
  input,            \* the input that the queries of SpecQuery are applied to
  op,               \* the last call: [name, self, arg]
  ret               \* what the last call returned

vars ==
  << defs, arrays, customOntology, interpreters, defaultInstance,
     snapshots, mutations, input, op, ret >>

\* Sum of the lengths of the first n categories of an ontology.
RECURSIVE EntriesBefore(_, _)
EntriesBefore(ontology, n) ==
  IF n = 0 THEN 0
  ELSE EntriesBefore(ontology, n - 1) + Len(ontology[n].entries)

\* The definition literals of a declared ontology, in declaration order.
RECURSIVE LiteralDefs(_)
LiteralDefs(literal) ==
  IF literal = << >> THEN << >>
  ELSE [i \in 1..Len(Head(literal).entries) |-> Head(literal).entries[i].def]
         \o LiteralDefs(Tail(literal))

\* The object a declaration evaluates to: every definition literal becomes an
\* object of its own, allocated at base + its position.
OntologyObject(literal, base) ==
  [c \in 1..Len(literal) |->
    [name |-> literal[c].name,
     entries |->
       [k \in 1..Len(literal[c].entries) |->
         [key |-> literal[c].entries[k].key,
          def |-> base + EntriesBefore(literal, c - 1) + k]]]]

\* Definition object d of a literal: its arrays are objects 2d-1 and 2d.
DefObject(lit, d) ==
  [emoji |-> lit.emoji, role |-> lit.role, meaning |-> lit.meaning,
   allowedContext |-> 2 * d - 1, usage |-> lit.usage,
   conflictsWith |-> 2 * d, example |-> lit.example]

CanonicalDefs == LiteralDefs(SemanticOntologySchema)

\* SemanticOntologySchema as an object graph: definitions 1..30.
SchemaObject == OntologyObject(SemanticOntologySchema, 0)

CanonicalDefHeap ==
  [d \in 1..Len(CanonicalDefs) |-> DefObject(CanonicalDefs[d], d)]

CanonicalArrayHeap ==
  [a \in 1..(2 * Len(CanonicalDefs)) |->
    IF a % 2 = 1 THEN CanonicalDefs[(a + 1) \div 2].allowedContext
    ELSE CanonicalDefs[a \div 2].conflictsWith]

(***************************************************************************)
(* Caller-supplied ontologies.  A plan lists, in declaration order, the     *)
(* category, emoji and allowedContext shape of each definition; the object  *)
(* has the 8 categories, and the planned definitions under keys a, b, ...   *)
(***************************************************************************)
KeyNames == << "a", "b", "c", "d", "e", "f" >>

RoleOf(c) ==
  << "STRUCTURE", "LEGAL", "REASONING", "TASK",
     "PRIVACY", "ACTOR", "STATE", "CONTROL" >>[c]

\* Categories the planned definitions are placed in: structure and reasoning,
\* so that definitions meet within a category and across categories.
PlanCategories == {1, 3}

ContextShapes == {"absent", "notArray", "empty", "one"}

\* The fields a definition may lack besides emoji and allowedContext.
MetadataFields == {"role", "meaning", "usage", "conflictsWith", "example"}

\* The value of a text field the definition object does not have.  The code
\* never reads role, meaning, usage or example, so they stay opaque values.
AbsentField == "<absent>"

PlansLacking(emojis, shapes, lacking, maxDefs) ==
  UNION {
    { p \in [1..n -> [cat : PlanCategories, emoji : emojis, context : shapes,
                      lacks : lacking]] :
        \A i \in 1..n : \A j \in 1..n : i < j => p[i].cat <= p[j].cat }
    : n \in 0..maxDefs }

\* Plans of definitions that have every field but, at most, emoji and
\* allowedContext.
Plans(emojis, shapes, maxDefs) ==
  PlansLacking(emojis, shapes, {"none"}, maxDefs)

PlanObject(plan, base) ==
  [c \in 1..Len(CategoryNames) |->
    LET first == Cardinality({i \in 1..Len(plan) : plan[i].cat < c})
        count == Cardinality({i \in 1..Len(plan) : plan[i].cat = c})
    IN  [name |-> CategoryNames[c],
         entries |->
           [k \in 1..count |->
             [key |-> KeyNames[first + k], def |-> base + first + k]]]]

PlanDefObject(p, d) ==
  [emoji |-> p.emoji,
   role |-> IF p.lacks = "role" THEN AbsentField ELSE RoleOf(p.cat),
   meaning |-> IF p.lacks = "meaning" THEN AbsentField ELSE "Custom",
   allowedContext |->
     CASE p.context = "absent" -> AbsentArray
       [] p.context = "notArray" -> NotAnArray
       [] OTHER -> 2 * d - 1,
   usage |-> IF p.lacks = "usage" THEN AbsentField ELSE "OPTIONAL",
   conflictsWith |-> IF p.lacks = "conflictsWith" THEN AbsentArray ELSE 2 * d,
   example |-> IF p.lacks = "example" THEN AbsentField ELSE ""]

\* The heaps once the module and the caller's ontology are loaded.
LoadedDefs(plan) ==
  CanonicalDefHeap
    \o [i \in 1..Len(plan) |-> PlanDefObject(plan[i], Len(CanonicalDefs) + i)]

LoadedArrays(plan) ==
  CanonicalArrayHeap
    \o [a \in 1..(2 * Len(plan)) |->
         IF a % 2 = 1 /\ plan[(a + 1) \div 2].context = "one"
         THEN << "HUMAN" >> ELSE << >>]

\* TRUE.  As a loop test it has the loop's accumulated value computed at
\* every iteration, as the code does, instead of all at once at the end.
Evaluated(v) == v = v

(***************************************************************************)
(* Map: insertion-ordered sequence of [key, value]; keys compare by value   *)
(* (SameValueZero on strings and undefined).                                *)
(***************************************************************************)
MapHas(map, k) == \E i \in 1..Len(map) : map[i].key = k

\* Map.prototype.get: 0 stands for undefined (no object has reference 0).
MapGet(map, k) ==
  IF MapHas(map, k)
  THEN map[CHOOSE i \in 1..Len(map) : map[i].key = k].value
  ELSE 0

\* A faulty variant: keeps the value a key already has.
MapSet_KeepFirst(map, k, v) ==
  IF \E i \in 1..Len(map) : map[i].key = k THEN map
  ELSE Append(map, [key |-> k, value |-> v])

\* Map.prototype.set: an existing key keeps its position and takes the value.
MapSet(map, k, v) ==
  IF MapHas(map, k)
  THEN [i \in 1..Len(map) |->
         IF map[i].key = k THEN [key |-> k, value |-> v] ELSE map[i]]
  ELSE Append(map, [key |-> k, value |-> v])

MapDelete(map, k) == SelectSeq(map, LAMBDA e : e.key # k)

MapKeys(map) == [i \in 1..Len(map) |-> map[i].key]

(***************************************************************************)
(* interpreter.ts                                                           *)
(***************************************************************************)
\* for (const def of Object.values(category)) map.set(def.emoji, def)
RECURSIVE IndexCategory(_, _, _)
IndexCategory(heap, map, entries) ==
  IF entries = << >> \/ ~Evaluated(map) THEN map
  ELSE IndexCategory(heap,
                     MapSet(map, heap[Head(entries).def].emoji, Head(entries).def),
                     Tail(entries))

RECURSIVE IndexCategories(_, _, _)
IndexCategories(heap, map, categories) ==
  IF categories = << >> \/ ~Evaluated(map) THEN map
  ELSE IndexCategories(heap,
                       IndexCategory(heap, map, Head(categories).entries),
                       Tail(categories))

buildEmojiIndex(heap, ontology) == IndexCategories(heap, << >>, ontology)

\* String(emoji)
StringOf(emoji) == IF emoji = Undefined THEN UndefinedText ELSE emoji

\* String.prototype.indexOf-style scan: does s occur in text at or after from?
RECURSIVE OccursFrom(_, _, _)
OccursFrom(text, s, from) ==
  IF from + Len(s) - 1 > Len(text) THEN FALSE
  ELSE IF SubSeq(text, from, from + Len(s) - 1) = s THEN TRUE
  ELSE OccursFrom(text, s, from + 1)

\* A faulty variant: String.prototype.startsWith in place of includes.
Includes_StartsWith(text, s) ==
  Len(s) <= Len(text) /\ SubSeq(text, 1, Len(s)) = s

\* String.prototype.includes
Includes(text, s) == OccursFrom(text, s, 1)

\* forEmojis: the loop over the input, with the result so far.
RECURSIVE ForEmojisLoop(_, _, _)
ForEmojisLoop(index, emojis, result) ==
  IF emojis = << >> \/ ~Evaluated(result) THEN result
  ELSE LET def == MapGet(index, Head(emojis))
       IN  ForEmojisLoop(index, Tail(emojis),
                         IF def # 0 THEN Append(result, def) ELSE result)

\* A faulty variant: walks the index and keeps the entries whose key is in
\* the list, so the result follows the index, not the list.
forEmojis_IndexOrder(index, emojis) ==
  LET hit == SelectSeq(index, LAMBDA e : \E i \in 1..Len(emojis) : emojis[i] = e.key)
  IN  [i \in 1..Len(hit) |-> hit[i].value]

forEmojis(index, emojis) == ForEmojisLoop(index, emojis, << >>)

\* A faulty variant: the newest element comes first, so the result follows
\* the reverse of the order of insertion.
SetAdd_Front(found, x) ==
  IF \E i \in 1..Len(found) : found[i] = x THEN found ELSE << x >> \o found

\* Set.prototype.add on an insertion-ordered set
SetAdd(found, x) ==
  IF \E i \in 1..Len(found) : found[i] = x THEN found ELSE Append(found, x)

RECURSIVE EmojiFromTextLoop(_, _, _)
EmojiFromTextLoop(keys, text, found) ==
  IF keys = << >> \/ ~Evaluated(found) THEN found
  ELSE EmojiFromTextLoop(Tail(keys), text,
                         IF Includes(text, StringOf(Head(keys)))
                         THEN SetAdd(found, Head(keys)) ELSE found)

emojiFromText(index, text) == EmojiFromTextLoop(MapKeys(index), text, << >>)

\* A faulty variant: resolves every key of the index, whatever the text.
forText_AllKeys(index, text) == forEmojis(index, MapKeys(index))

forText(index, text) == forEmojis(index, emojiFromText(index, text))

\* A faulty variant: the copies are made, and the indexed objects lose their
\* example.
copyIndex_ClearsExample(heap, index) ==
  [map |-> [i \in 1..Len(index) |->
             [key |-> index[i].key, value |-> Len(heap) + i]],
   heap |-> [d \in 1..Len(heap) |->
              IF \E i \in 1..Len(index) : index[i].value = d
              THEN [heap[d] EXCEPT !.example = "cleared"] ELSE heap[d]]
            \o [i \in 1..Len(index) |-> heap[index[i].value]]]

\* A faulty variant: a new Map over the indexed objects themselves.
copyIndex_SameObjects(heap, index) == [map |-> index, heap |-> heap]

\* copyIndex: a new Map whose values are new objects { ...def }, allocated
\* at the end of the definition heap.  Returns the Map and the new heap.
copyIndex(heap, index) ==
  [map |-> [i \in 1..Len(index) |->
             [key |-> index[i].key, value |-> Len(heap) + i]],
   heap |-> heap \o [i \in 1..Len(index) |-> heap[index[i].value]]]

\* The ontology object a reference names.
OntologyAt(ontology) ==
  IF ontology = "SemanticOntologySchema" THEN SchemaObject ELSE customOntology

\* new SceOntologyInterpreter(ontology)
NewInterpreter(ontology) == [index |-> buildEmojiIndex(defs, OntologyAt(ontology))]

\* A faulty variant: constructs the default instance on every access.
Default_Uncached ==
  [interpreters |-> Append(interpreters, NewInterpreter("SemanticOntologySchema")),
   defaultInstance |-> Len(interpreters) + 1,
   instance |-> Len(interpreters) + 1]

\* static get Default()
Default ==
  IF defaultInstance = 0
  THEN [interpreters |-> Append(interpreters, NewInterpreter("SemanticOntologySchema")),
        defaultInstance |-> Len(interpreters) + 1,
        instance |-> Len(interpreters) + 1]
  ELSE [interpreters |-> interpreters,
        defaultInstance |-> defaultInstance,
        instance |-> defaultInstance]

\* A faulty variant: an interpreter constructed for an ontology takes the
\* place of the default instance.
interpreter_ReplacesDefault(ontology) ==
  IF ontology # "undefined"
  THEN [interpreters |-> Append(interpreters, NewInterpreter(ontology)),
        defaultInstance |-> Len(interpreters) + 1,
        instance |-> Len(interpreters) + 1]
  ELSE Default

\* A faulty variant: answers the canonical ontology with the default instance.
interpreter_SharedForCanonical(ontology) ==
  IF ontology # "undefined" /\ ontology # "SemanticOntologySchema"
  THEN [interpreters |-> Append(interpreters, NewInterpreter(ontology)),
        defaultInstance |-> defaultInstance,
        instance |-> Len(interpreters) + 1]
  ELSE Default

\* interpreter(ontology?): ontology ? new SceOntologyInterpreter(ontology)
\*                                  : SceOntologyInterpreter.Default
interpreter(ontology) ==
  IF ontology # "undefined"
  THEN [interpreters |-> Append(interpreters, NewInterpreter(ontology)),
        defaultInstance |-> defaultInstance,
        instance |-> Len(interpreters) + 1]
  ELSE Default

\* A faulty variant: looks the emojis up in an index of its own.
getDefinitionsForEmojis_SeparateIndex(emojis) ==
  LET own == NewInterpreter("SemanticOntologySchema")
  IN  [interpreters |-> Append(interpreters, own),
       defaultInstance |-> defaultInstance,
       instance |-> Len(interpreters) + 1,
       value |-> forEmojis(own.index, emojis)]

\* getDefinitionsForEmojis(emojis) ==
\*   SceOntologyInterpreter.Default.forEmojis(emojis)
getDefinitionsForEmojis(emojis) ==
  LET r == Default
  IN  [interpreters |-> r.interpreters,
       defaultInstance |-> r.defaultInstance,
       instance |-> r.instance,
       value |-> forEmojis(r.interpreters[r.instance].index, emojis)]

\* extractEmojisFromText(text) ==
\*   SceOntologyInterpreter.Default.emojiFromText(text)
extractEmojisFromText(text) ==
  LET r == Default
  IN  [interpreters |-> r.interpreters,
       defaultInstance |-> r.defaultInstance,
       instance |-> r.instance,
       value |-> emojiFromText(r.interpreters[r.instance].index, text)]

\* getDefinitionsFromText(text) ==
\*   SceOntologyInterpreter.Default.forText(text)
getDefinitionsFromText(text) ==
  LET r == Default
  IN  [interpreters |-> r.interpreters,
       defaultInstance |-> r.defaultInstance,
       instance |-> r.instance,
       value |-> forText(r.interpreters[r.instance].index, text)]

(***************************************************************************)
(* validator.ts                                                             *)
(***************************************************************************)
\* A faulty variant: only a missing emoji counts, the empty string does not.
IsFalsy_UndefinedOnly(emoji) == emoji = Undefined

\* A faulty variant: an emoji of fewer than two code units counts as missing.
IsFalsy_BelowTwoUnits(emoji) == emoji = Undefined \/ Len(emoji) < 2

\* !def.emoji
IsFalsy(emoji) == emoji = Undefined \/ emoji = << >>

MissingEmoji(path) ==
  [kind |-> "Missing emoji", emoji |-> << >>, path |-> path, first |-> << >>]

DuplicateEmoji(emoji, path, first) ==
  [kind |-> "Duplicate emoji", emoji |-> StringOf(emoji), path |-> path,
   first |-> first]

EmptyContext(path) ==
  [kind |-> "allowedContext must be non-empty array", emoji |-> << >>,
   path |-> path, first |-> << >>]

\* x.length: reading a property of undefined raises a TypeError.
ReadLength(x) == IF x = AbsentArray THEN "TypeError" ELSE "none"

\* A faulty variant: the length is read without asking Array.isArray first.
ContextCheckRaised_Unguarded(x) == ReadLength(x)

\* What evaluating !Array.isArray(x) || x.length === 0 raises: the length is
\* read only of an array.
ContextCheckRaised(x) ==
  IF x = AbsentArray \/ x = NotAnArray THEN "none" ELSE ReadLength(x)

\* A faulty variant: only an empty array counts, an absent field or a
\* non-array does not.
NotNonEmptyArray_EmptyOnly(arrs, x) ==
  IF x = AbsentArray \/ x = NotAnArray THEN FALSE ELSE Len(arrs[x]) = 0

\* !Array.isArray(x) || x.length === 0
NotNonEmptyArray(arrs, x) ==
  IF x = AbsentArray \/ x = NotAnArray THEN TRUE ELSE Len(arrs[x]) = 0

\* A faulty variant: checks allowedContext before the emoji.
ValidateDefinition_ContextFirst(heap, arrs, st, categoryName, entry) ==
  LET path == << categoryName, entry.key >>
      def == heap[entry.def]
      seen == MapHas(st.seenEmojis, def.emoji)
  IN  [errors |->
         st.errors
           \o (IF NotNonEmptyArray(arrs, def.allowedContext)
               THEN << EmptyContext(path) >> ELSE << >>)
           \o (IF IsFalsy(def.emoji) THEN << MissingEmoji(path) >> ELSE << >>)
           \o (IF seen
               THEN << DuplicateEmoji(def.emoji, path,
                                      MapGet(st.seenEmojis, def.emoji)) >>
               ELSE << >>),
       seenEmojis |->
         IF seen THEN st.seenEmojis
         ELSE MapSet(st.seenEmojis, def.emoji, path),
       raised |->
         IF st.raised # "none" THEN st.raised
         ELSE ContextCheckRaised(def.allowedContext)]

\* A faulty variant: records the path of every occurrence of an emoji, so a
\* later duplicate is reported against the latest one.
ValidateDefinition_LatestPath(heap, arrs, st, categoryName, entry) ==
  LET path == << categoryName, entry.key >>
      def == heap[entry.def]
      seen == MapHas(st.seenEmojis, def.emoji)
  IN  [errors |->
         st.errors
           \o (IF IsFalsy(def.emoji) THEN << MissingEmoji(path) >> ELSE << >>)
           \o (IF seen
               THEN << DuplicateEmoji(def.emoji, path,
                                      MapGet(st.seenEmojis, def.emoji)) >>
               ELSE << >>)
           \o (IF NotNonEmptyArray(arrs, def.allowedContext)
               THEN << EmptyContext(path) >> ELSE << >>),
       seenEmojis |-> MapSet(st.seenEmojis, def.emoji, path),
       raised |->
         IF st.raised # "none" THEN st.raised
         ELSE ContextCheckRaised(def.allowedContext)]

\* A faulty variant: a definition without emoji is reported as missing only,
\* and is neither compared with the emojis seen nor recorded among them.
ValidateDefinition_SkipsMissing(heap, arrs, st, categoryName, entry) ==
  LET path == << categoryName, entry.key >>
      def == heap[entry.def]
      seen == ~IsFalsy(def.emoji) /\ MapHas(st.seenEmojis, def.emoji)
  IN  [errors |->
         st.errors
           \o (IF IsFalsy(def.emoji) THEN << MissingEmoji(path) >> ELSE << >>)
           \o (IF seen
               THEN << DuplicateEmoji(def.emoji, path,
                                      MapGet(st.seenEmojis, def.emoji)) >>
               ELSE << >>)
           \o (IF NotNonEmptyArray(arrs, def.allowedContext)
               THEN << EmptyContext(path) >> ELSE << >>),
       seenEmojis |->
         IF seen \/ IsFalsy(def.emoji) THEN st.seenEmojis
         ELSE MapSet(st.seenEmojis, def.emoji, path),
       raised |->
         IF st.raised # "none" THEN st.raised
         ELSE ContextCheckRaised(def.allowedContext)]

\* The body of the inner loop, on state [errors, seenEmojis, raised]: raised
\* is the error the loop has raised so far, "none" while it has raised none.
ValidateDefinition(heap, arrs, st, categoryName, entry) ==
  LET path == << categoryName, entry.key >>
      def == heap[entry.def]
      seen == MapHas(st.seenEmojis, def.emoji)
  IN  [errors |->
         st.errors
           \o (IF IsFalsy(def.emoji) THEN << MissingEmoji(path) >> ELSE << >>)
           \o (IF seen
               THEN << DuplicateEmoji(def.emoji, path,
                                      MapGet(st.seenEmojis, def.emoji)) >>
               ELSE << >>)
           \o (IF NotNonEmptyArray(arrs, def.allowedContext)
               THEN << EmptyContext(path) >> ELSE << >>),
       seenEmojis |->
         IF seen THEN st.seenEmojis
         ELSE MapSet(st.seenEmojis, def.emoji, path),
       raised |->
         IF st.raised # "none" THEN st.raised
         ELSE ContextCheckRaised(def.allowedContext)]

RECURSIVE ValidateCategory(_, _, _, _, _)
ValidateCategory(heap, arrs, st, categoryName, entries) ==
  IF entries = << >> \/ ~Evaluated(st) THEN st
  ELSE ValidateCategory(heap, arrs,
         ValidateDefinition(heap, arrs, st, categoryName, Head(entries)),
         categoryName, Tail(entries))

RECURSIVE ValidateCategories(_, _, _, _)
ValidateCategories(heap, arrs, st, categories) ==
  IF categories = << >> \/ ~Evaluated(st) THEN st
  ELSE ValidateCategories(heap, arrs,
         ValidateCategory(heap, arrs, st, Head(categories).name,
                          Head(categories).entries),
         Tail(categories))

ValidateStart == [errors |-> << >>, seenEmojis |-> << >>, raised |-> "none"]

\* A run of validateOntology: the errors it collected and what it raised.
validateOntologyRun(heap, arrs, ontology) ==
  ValidateCategories(heap, arrs, ValidateStart, ontology)

validateOntology(heap, arrs, ontology) ==
  validateOntologyRun(heap, arrs, ontology).errors

(***************************************************************************)
(* Inputs.                                                                  *)
(***************************************************************************)
ANALYZE_EMOJI == << 55357, 56589 >>
INSIGHT_EMOJI == << 55358, 56800 >>
\* An emoji that no ontology here defines (the tests' sunglasses face).
UnknownEmoji == << 55357, 56846 >>

\* Sequences of at most n elements of S.
SeqsUpTo(S, n) == UNION { [1..k -> S] : k \in 0..n }

RECURSIVE Concat(_)
Concat(pieces) ==
  IF pieces = << >> THEN << >> ELSE Head(pieces) \o Concat(Tail(pieces))

OntologyRefs == {"SemanticOntologySchema", "customOntology"}

\* Lists and texts the lifecycle specification queries with.
ProbeLists ==
  { << ANALYZE_EMOJI, UnknownEmoji, INSIGHT_EMOJI, ANALYZE_EMOJI >>,
    << << 1, 2 >>, << 1 >> >> }

ProbeTexts ==
  { INSIGHT_EMOJI \o << 32 >> \o ANALYZE_EMOJI \o ANALYZE_EMOJI,
    << 2, 1, 2 >> }

\* Inputs of the pure-function specification of the queries.
QueryEmojis == { << >>, << 1 >>, << 1, 2 >>, ANALYZE_EMOJI }
QueryLists == SeqsUpTo(QueryEmojis, MaxListLen)
QueryPieces == { << 1 >>, << 2 >>, ANALYZE_EMOJI }
QueryTexts ==
  { Concat(p) : p \in SeqsUpTo(QueryPieces, MaxTextLen) }
    \cup { UndefinedText, << 1 >> \o UndefinedText \o << 2 >> }
NoInput == [kind |-> "none", value |-> << >>]

\* Ontologies of the specifications.
\* The caller's ontology of the lifecycle and snapshot specifications: two
\* definitions in two categories, with distinct emoji or with the same emoji.
LifecyclePlans ==
  { << [cat |-> 1, emoji |-> << 1 >>, context |-> "one", lacks |-> "none"],
       [cat |-> 3, emoji |-> e, context |-> "one", lacks |-> "none"] >> :
    e \in { << 1 >>, << 1, 2 >> } }
\* The caller's ontology of the query specification: one definition in the
\* first category and the others in a later one.
QueryPlans ==
  { p \in Plans({ Undefined, << >>, << 1 >>, << 1, 2 >> }, {"one"}, MaxIndexDefs) :
      \A i \in 1..Len(p) : p[i].cat = IF i = 1 THEN 1 ELSE 3 }
ValidatePlans ==
  { p \in Plans({ Undefined, << >>, << 1 >> }, ContextShapes, MaxDefs) :
      \A i \in 1..Len(p) :
        p[i].context \in {"absent", "notArray"} => p[i].emoji = << 1 >> }

\* The emojis of the canonical ontology, as texts.
CanonicalEmojis == { CanonicalDefs[d].emoji : d \in 1..Len(CanonicalDefs) }
CanonicalTexts == CanonicalEmojis \cup ProbeTexts

\* Ontologies whose definitions have emoji and allowedContext and may lack
\* one of the other fields.
MetadataPlans ==
  { p \in PlansLacking({ << 1 >>, << 1, 2 >> }, {"one"},
                       MetadataFields \cup {"none"}, MaxIndexDefs) :
      \A i \in 1..Len(p) : p[i].cat = IF i = 1 THEN 1 ELSE 3 }

(***************************************************************************)
(* Initial states.                                                          *)
(***************************************************************************)
\* The module and the caller's ontology are loaded; nothing was called yet.
Loaded(plan) ==
  /\ defs = LoadedDefs(plan)
  /\ arrays = LoadedArrays(plan)
  /\ customOntology = PlanObject(plan, Len(CanonicalDefs))
  /\ snapshots = << >>
  /\ mutations = 0
  /\ op = [name |-> "load", self |-> 0, arg |-> << >>, raised |-> "none"]
  /\ ret = << >>

Fresh ==
  /\ interpreters = << >>
  /\ defaultInstance = 0

\* const defaultInterpreter = interpreter();
\* const customInterpreter = interpreter(customOntology);
Constructed(plan) ==
  /\ interpreters =
       << [index |-> buildEmojiIndex(LoadedDefs(plan), SchemaObject)],
          [index |-> buildEmojiIndex(LoadedDefs(plan),
                                     PlanObject(plan, Len(CanonicalDefs)))] >>
  /\ defaultInstance = 1

Init ==
  \E plan \in LifecyclePlans : Loaded(plan) /\ Fresh /\ input = NoInput

InitSnapshot ==
  \E plan \in LifecyclePlans : Loaded(plan) /\ Constructed(plan) /\ input = NoInput

InitQuery ==
  \E plan \in QueryPlans :
    /\ Loaded(plan) /\ Constructed(plan)
    /\ \/ \E emojis \in QueryLists : input = [kind |-> "emojis", value |-> emojis]
       \/ \E text \in QueryTexts : input = [kind |-> "text", value |-> text]

\* Only the module is loaded: the caller brings no ontology of its own.
InitCanonical ==
  Loaded(<< >>) /\ Fresh /\ input = NoInput

InitMetadata ==
  \E plan \in MetadataPlans : Loaded(plan) /\ Fresh /\ input = NoInput

InitValidate ==
  \E plan \in ValidatePlans : Loaded(plan) /\ Fresh /\ input = NoInput

(***************************************************************************)
(* Calls.                                                                   *)
(***************************************************************************)
\* The last call and the error it raised ("none": it returned).
Outcome(name, self, arg, raised) ==
  op' = [name |-> name, self |-> self, arg |-> arg, raised |-> raised]

Call(name, self, arg) == Outcome(name, self, arg, "none")

\* Interpreters that interpreter(ontology) constructed.
Supplied == Len(interpreters) - (IF defaultInstance = 0 THEN 0 ELSE 1)

Interpreter(ontology) ==
  /\ ontology # "undefined" => Supplied < MaxInterpreters
  /\ LET r == interpreter(ontology)
     IN  /\ interpreters' = r.interpreters
         /\ defaultInstance' = r.defaultInstance
         /\ ret' = r.instance
  /\ Call("interpreter", 0, ontology)
  /\ UNCHANGED << defs, arrays, customOntology, snapshots, mutations, input >>

\* A faulty variant: answers with shallow copies of the indexed definitions,
\* allocated at the end of the definition heap.
ForEmojis_Copies(self, emojis) ==
  /\ \E found \in { forEmojis(interpreters[self].index, emojis) } :
       /\ defs' = defs \o [i \in 1..Len(found) |-> defs[found[i]]]
       /\ ret' = [i \in 1..Len(found) |-> Len(defs) + i]
  /\ Call("forEmojis", self, emojis)
  /\ UNCHANGED << arrays, customOntology, interpreters, defaultInstance,
                  snapshots, mutations, input >>

ForEmojis(self, emojis) ==
  /\ ret' = forEmojis(interpreters[self].index, emojis)
  /\ Call("forEmojis", self, emojis)
  /\ UNCHANGED << defs, arrays, customOntology, interpreters, defaultInstance,
                  snapshots, mutations, input >>

EmojiFromText(self, text) ==
  /\ ret' = emojiFromText(interpreters[self].index, text)
  /\ Call("emojiFromText", self, text)
  /\ UNCHANGED << defs, arrays, customOntology, interpreters, defaultInstance,
                  snapshots, mutations, input >>

ForText(self, text) ==
  /\ ret' = forText(interpreters[self].index, text)
  /\ Call("forText", self, text)
  /\ UNCHANGED << defs, arrays, customOntology, interpreters, defaultInstance,
                  snapshots, mutations, input >>

\* copyIndex returns a reference to the new Map.
CopyIndex(self) ==
  /\ Len(snapshots) < MaxSnapshots
  /\ LET c == copyIndex(defs, interpreters[self].index)
     IN  /\ defs' = c.heap
         /\ snapshots' = Append(snapshots, c.map)
  /\ ret' = Len(snapshots) + 1
  /\ Call("copyIndex", self, << >>)
  /\ UNCHANGED << arrays, customOntology, interpreters, defaultInstance,
                  mutations, input >>

\* A faulty variant: validates, and constructs the default interpreter on
\* the way.
ValidateOntology_ThroughDefault(ontology) ==
  /\ \E run \in { validateOntologyRun(defs, arrays,
                     OntologyAt(IF ontology = "undefined"
                                THEN "SemanticOntologySchema" ELSE ontology)) } :
       /\ ret' = IF run.raised = "none" THEN run.errors ELSE << >>
       /\ Outcome("validateOntology", 0, ontology, run.raised)
  /\ interpreters' = Default.interpreters
  /\ defaultInstance' = Default.defaultInstance
  /\ UNCHANGED << defs, arrays, customOntology, snapshots, mutations, input >>

\* validateOntology(ontology = SemanticOntologySchema)
ValidateOntology(ontology) ==
  /\ \E run \in { validateOntologyRun(defs, arrays,
                     OntologyAt(IF ontology = "undefined"
                                THEN "SemanticOntologySchema" ELSE ontology)) } :
       /\ ret' = IF run.raised = "none" THEN run.errors ELSE << >>
       /\ Outcome("validateOntology", 0, ontology, run.raised)
  /\ UNCHANGED << defs, arrays, customOntology, interpreters, defaultInstance,
                  snapshots, mutations, input >>

\* A free function: the call runs against r.instance and may have created
\* the default instance on the way.
FreeCall(name, arg, r) ==
  /\ interpreters' = r.interpreters
  /\ defaultInstance' = r.defaultInstance
  /\ ret' = r.value
  /\ Call(name, r.instance, arg)
  /\ UNCHANGED << defs, arrays, customOntology, snapshots, mutations, input >>

GetDefinitionsForEmojis(emojis) ==
  \E r \in { getDefinitionsForEmojis(emojis) } :
    FreeCall("getDefinitionsForEmojis", emojis, r)

ExtractEmojisFromText(text) ==
  \E r \in { extractEmojisFromText(text) } :
    FreeCall("extractEmojisFromText", text, r)

GetDefinitionsFromText(text) ==
  \E r \in { getDefinitionsFromText(text) } :
    FreeCall("getDefinitionsFromText", text, r)

(***************************************************************************)
(* The caller's mutations of what copyIndex returned: the Map, and the      *)
(* definition objects it got out of the Map.                                *)
(***************************************************************************)
\* Definition objects allocated by copyIndex.
Copies == { d \in 1..Len(defs) : d > EntriesBefore(customOntology, Len(customOntology))
                                       + Len(CanonicalDefs) }

\* The definition objects the caller holds and mutates: the ones it got out
\* of a snapshot under one of a few keys.
MutatedKeys == { ANALYZE_EMOJI, << 1 >> }
SnapshotValues ==
  UNION { { snapshots[s][i].value : i \in 1..Len(snapshots[s]) } :
          s \in 1..Len(snapshots) }
Picked == { d \in Copies \cup SnapshotValues : defs[d].emoji \in MutatedKeys \cup { UnknownEmoji } }

Mutation(name, arg) ==
  /\ mutations < MaxMutations
  /\ mutations' = mutations + 1
  /\ Call(name, 0, arg)
  /\ ret' = << >>
  /\ UNCHANGED << customOntology, interpreters, defaultInstance, input >>

\* copy.set(key, def)
SnapshotSet(s, key, d) ==
  /\ snapshots' = [snapshots EXCEPT ![s] = MapSet(@, key, d)]
  /\ Mutation("Map.set", << s, key, d >>)
  /\ UNCHANGED << defs, arrays >>

\* copy.delete(key)
SnapshotDelete(s, key) ==
  /\ MapHas(snapshots[s], key)
  /\ snapshots' = [snapshots EXCEPT ![s] = MapDelete(@, key)]
  /\ Mutation("Map.delete", << s, key >>)
  /\ UNCHANGED << defs, arrays >>

\* copy.clear()
SnapshotClear(s) ==
  /\ snapshots[s] # << >>
  /\ snapshots' = [snapshots EXCEPT ![s] = << >>]
  /\ Mutation("Map.clear", << s >>)
  /\ UNCHANGED << defs, arrays >>

\* copiedDefinition.meaning = "Modified meaning", or the same on emoji
AssignField(d, field) ==
  /\ field = "meaning" => defs[d].meaning # "Modified meaning"
  /\ field = "emoji" => defs[d].emoji # UnknownEmoji
  /\ defs' = IF field = "meaning"
             THEN [defs EXCEPT ![d].meaning = "Modified meaning"]
             ELSE [defs EXCEPT ![d].emoji = UnknownEmoji]
  /\ Mutation("assign", << d, field >>)
  /\ UNCHANGED << arrays, snapshots >>

\* copiedDefinition.allowedContext.push("TOOL") / .pop(), and the same on
\* conflictsWith: the array object itself is changed.
ArrayOf(d, field) ==
  IF field = "allowedContext" THEN defs[d].allowedContext
  ELSE defs[d].conflictsWith

MutateArray(d, field, how) ==
  LET a == ArrayOf(d, field)
  IN  /\ a # AbsentArray /\ a # NotAnArray
      /\ how = "pop" => arrays[a] # << >>
      /\ arrays' =
           [arrays EXCEPT ![a] =
             IF how = "pop" THEN SubSeq(@, 1, Len(@) - 1)
             ELSE IF field = "allowedContext" THEN Append(@, "TOOL")
             ELSE Append(@, UnknownEmoji)]
      /\ Mutation(how, << d, field >>)
      /\ UNCHANGED << defs, snapshots >>

(***************************************************************************)
(* Specifications.                                                          *)
(***************************************************************************)
\* Lifecycle: interpreters are created and queried, ontologies validated.
Next ==
  \/ \E ontology \in OntologyRefs \cup {"undefined"} : Interpreter(ontology)
  \/ \E self \in 1..Len(interpreters) :
       \/ \E emojis \in ProbeLists : ForEmojis(self, emojis)
       \/ \E text \in ProbeTexts : EmojiFromText(self, text)
       \/ \E text \in ProbeTexts : ForText(self, text)
  \/ \E ontology \in OntologyRefs \cup {"undefined"} : ValidateOntology(ontology)

Spec == Init /\ [][Next]_vars

\* Snapshots: copyIndex, and the caller's mutations of the Map it returned
\* and of the top-level fields of the objects in it.
NextSnapshot ==
  \/ \E self \in 1..Len(interpreters) : CopyIndex(self)
  \/ \E s \in 1..Len(snapshots) :
       \/ \E key \in {UnknownEmoji, << 1 >>} : \E d \in Picked :
            SnapshotSet(s, key, d)
       \/ \E key \in MutatedKeys : SnapshotDelete(s, key)
       \/ SnapshotClear(s)
  \/ \E d \in Picked : \E field \in {"meaning", "emoji"} : AssignField(d, field)

SpecSnapshot == InitSnapshot /\ [][NextSnapshot]_vars

\* Snapshots whose objects' arrays the caller changes in place as well.
NextNested ==
  \/ NextSnapshot
  \/ \E d \in Picked :
       \E field \in {"allowedContext", "conflictsWith"} :
         \E how \in {"push", "pop"} : MutateArray(d, field, how)

SpecNested == InitSnapshot /\ [][NextNested]_vars

\* The queries as pure functions of the index and the input.
NextQuery ==
  \E self \in 1..Len(interpreters) :
    \/ input.kind = "emojis" /\ ForEmojis(self, input.value)
    \/ input.kind = "text" /\ EmojiFromText(self, input.value)
    \/ input.kind = "text" /\ ForText(self, input.value)

SpecQuery == InitQuery /\ [][NextQuery]_vars

\* The validator as a pure function of the ontology.
NextValidate ==
  \E ontology \in OntologyRefs \cup {"undefined"} : ValidateOntology(ontology)

SpecValidate == InitValidate /\ [][NextValidate]_vars

\* Malformed ontologies: every operation of the core, on an ontology whose
\* records lack an emoji or an allowedContext, share an emoji, or leave
\* categories empty.
TotalPlans ==
  { p \in Plans({ Undefined, << 1 >> }, ContextShapes, MaxIndexDefs) :
      \A i \in 1..Len(p) :
        /\ p[i].cat = IF i = 1 THEN 1 ELSE 3
        /\ p[i].context \in {"absent", "notArray"} => p[i].emoji = << 1 >> }
TotalTexts == ProbeTexts \cup { << >>, UndefinedText }

InitTotal ==
  \E plan \in TotalPlans : Loaded(plan) /\ Fresh /\ input = NoInput

NextTotal ==
  \/ Interpreter("customOntology")
  \/ \E self \in 1..Len(interpreters) :
       \/ \E emojis \in ProbeLists : ForEmojis(self, emojis)
       \/ \E text \in TotalTexts : EmojiFromText(self, text)
       \/ \E text \in TotalTexts : ForText(self, text)
       \/ CopyIndex(self)
  \/ ValidateOntology("customOntology")

SpecTotal == InitTotal /\ [][NextTotal]_vars

\* The canonical ontology alone: the methods of interpreter() and of
\* interpreter(SemanticOntologySchema), and the free functions.
NextCanonical ==
  \/ Interpreter("undefined")
  \/ Interpreter("SemanticOntologySchema")
  \/ \E self \in 1..Len(interpreters) :
       \/ \E emojis \in ProbeLists : ForEmojis(self, emojis)
       \/ \E text \in ProbeTexts : EmojiFromText(self, text)
       \/ \E text \in CanonicalTexts : ForText(self, text)
  \/ \E emojis \in ProbeLists : GetDefinitionsForEmojis(emojis)
  \/ \E text \in ProbeTexts : ExtractEmojisFromText(text)
  \/ \E text \in ProbeTexts : GetDefinitionsFromText(text)

SpecCanonical == InitCanonical /\ [][NextCanonical]_vars

\* Validation of ontologies whose definitions lack metadata fields.
NextMetadata ==
  \/ ValidateOntology("undefined")
  \/ ValidateOntology("customOntology")
  \/ Interpreter("customOntology")

SpecMetadata == InitMetadata /\ [][NextMetadata]_vars

(***************************************************************************)
(* cli.ts.  Strings are sequences of code units; the state of a run is      *)
(* kept in op (where main is) and ret (the options while main awaits        *)
(* stdin, then what the process printed and its exit code).                 *)
(***************************************************************************)
ExplainWord == << 101, 120, 112, 108, 97, 105, 110 >>     \* "explain"
JsonWord == << 106, 115, 111, 110 >>                      \* "json"
HelpWord == << 104, 101, 108, 112 >>                      \* "help"
ShortHelpFlag == << 45, 104 >>                            \* "-h"
LongHelpFlag == << 45, 45, 104, 101, 108, 112 >>          \* "--help"
ValidateWord == << 118, 97, 108, 105, 100, 97, 116, 101 >> \* "validate"

\* String.prototype.toLowerCase, on the letters A-Z.
ToLowerCase(s) ==
  [i \in 1..Len(s) |-> IF s[i] \in 65..90 THEN s[i] + 32 ELSE s[i]]

\* WhiteSpace and LineTerminator code units, which trim() strips.
IsWhiteSpace(c) ==
  c \in {9, 10, 11, 12, 13, 32, 160, 5760, 8232, 8233, 8239, 8287, 12288, 65279}
       \cup 8192..8202

RECURSIVE TrimStart(_)
TrimStart(s) ==
  IF s = << >> \/ ~IsWhiteSpace(s[1]) THEN s ELSE TrimStart(Tail(s))

RECURSIVE TrimEnd(_)
TrimEnd(s) ==
  IF s = << >> \/ ~IsWhiteSpace(s[Len(s)]) THEN s
  ELSE TrimEnd(SubSeq(s, 1, Len(s) - 1))

\* String.prototype.trim
Trim(s) == TrimEnd(TrimStart(s))

\* Array.prototype.join(" ")
RECURSIVE Join(_)
Join(words) ==
  IF words = << >> THEN << >>
  ELSE IF Len(words) = 1 THEN words[1]
  ELSE words[1] \o << 32 >> \o Join(Tail(words))

\* A faulty variant: a first argument that is no command is dropped, not
\* taken as text to explain.
parseArgs_NoDefaultExplain(args) ==
  IF args = << >> THEN [command |-> "help", text |-> Undefined, format |-> "pretty"]
  ELSE LET command == ToLowerCase(args[1])
       IN  IF command = JsonWord
           THEN [command |-> "json",
                 text |-> IF Trim(Join(Tail(args))) = << >> THEN Undefined
                          ELSE Trim(Join(Tail(args))),
                 format |-> "json"]
           ELSE IF command \in { ShortHelpFlag, LongHelpFlag, HelpWord }
           THEN [command |-> "help", text |-> Undefined, format |-> "pretty"]
           ELSE [command |-> "explain",
                 text |-> IF Trim(Join(Tail(args))) = << >> THEN Undefined
                          ELSE Trim(Join(Tail(args))),
                 format |-> "pretty"]

\* parseArgs(argv), with args = argv.slice(2)
parseArgs(args) ==
  IF args = << >> THEN [command |-> "help", text |-> Undefined, format |-> "pretty"]
  ELSE LET command == ToLowerCase(args[1])
           textArg == Trim(Join(Tail(args)))
       IN  IF command = ExplainWord \/ command = JsonWord
           THEN [command |-> IF command = JsonWord THEN "json" ELSE "explain",
                 text |-> IF textArg = << >> THEN Undefined ELSE textArg,
                 format |-> IF command = JsonWord THEN "json" ELSE "pretty"]
           ELSE IF command \in { ShortHelpFlag, LongHelpFlag, HelpWord }
           THEN [command |-> "help", text |-> Undefined, format |-> "pretty"]
           ELSE [command |-> "explain", text |-> Join(args), format |-> "pretty"]

\* readStdin(): what the promise resolves to.
readStdin(stdin) == IF stdin.isTTY THEN << >> ELSE stdin.data

\* What the process has printed and the exit code it has set.
Finished(exitCode, printed, found) ==
  [exitCode |-> exitCode, printed |-> printed, defs |-> found]

\* printPretty(defs)
printPretty(found) ==
  IF Len(found) = 0 THEN "No SCE symbols found." ELSE "pretty"

\* main from `const defs = getDefinitionsFromText(text)` on.
Explain(opts, text) ==
  \E r \in { getDefinitionsFromText(text) } :
    /\ interpreters' = r.interpreters
    /\ defaultInstance' = r.defaultInstance
    /\ ret' = Finished(0,
                       IF opts.format = "json" \/ opts.command = "json"
                       THEN "json" ELSE printPretty(r.value),
                       r.value)
    /\ Call("main", r.instance, text)

\* main after the text is known.
WithText(opts, text) ==
  IF IsFalsy(text)
  THEN /\ ret' = Finished(1, "No input text provided (argument or stdin).",
                          << >>)
       /\ Call("main", 0, << >>)
       /\ UNCHANGED << interpreters, defaultInstance >>
  ELSE Explain(opts, text)

\* main up to its end, or up to `await readStdin()`.
Main ==
  /\ op.name = "load"
  /\ \E opts \in { parseArgs(input.value.args) } :
       IF opts.command = "help"
       THEN /\ ret' = Finished(0, "help", << >>)
            /\ Call("main", 0, << >>)
            /\ UNCHANGED << interpreters, defaultInstance >>
       ELSE IF IsFalsy(opts.text)
       THEN /\ ret' = opts
            /\ Call("readStdin", 0, << >>)
            /\ UNCHANGED << interpreters, defaultInstance >>
       ELSE WithText(opts, opts.text)
  /\ UNCHANGED << defs, arrays, customOntology, snapshots, mutations, input >>

\* main from the resolution of readStdin() to its end.
StdinEnd ==
  /\ op.name = "readStdin"
  /\ WithText(ret, Trim(readStdin(input.value.stdin)))
  /\ UNCHANGED << defs, arrays, customOntology, snapshots, mutations, input >>

\* Command lines and standard inputs.
ArgWords ==
  { ExplainWord, << 74, 115, 111, 110 >>, HelpWord, ShortHelpFlag,
    LongHelpFlag, ValidateWord, << >>, << 32 >>, << 120 >>, ANALYZE_EMOJI }

StdinData ==
  { << >>, << 32, 10 >>, << 120, 10 >>, ANALYZE_EMOJI \o << 10 >> }

Stdins ==
  { [isTTY |-> TRUE, data |-> << >>] }
    \cup { [isTTY |-> FALSE, data |-> d] : d \in StdinData }

InitCli ==
  /\ Loaded(<< >>) /\ Fresh
  /\ \E args \in SeqsUpTo(ArgWords, MaxArgs) : \E stdin \in Stdins :
       input = [kind |-> "cli", value |-> [args |-> args, stdin |-> stdin]]

NextCli == Main \/ StdinEnd

SpecCli == InitCli /\ [][NextCli]_vars

(***************************************************************************)
(* The tool server: output formats and sce_suggest_symbols.  The text a    *)
(* tool returns is kept as its parts: the pretty rendering and the JSON     *)
(* payload, each a sequence of length 0 (not in the text) or 1.             *)
(***************************************************************************)
\* resolveFormatType(format); "auto" is also what an absent type defaults to.
resolveFormatType(format, isTTY) ==
  IF format.type # "auto" THEN format.type
  ELSE IF isTTY THEN "pretty" ELSE "json"

\* shouldUseColor(format)
shouldUseColor(format, isTTY) == format.color /\ isTTY

\* The content of the tool's answer for a format type.
Content(fmtType, pretty, payload) ==
  [pretty |-> IF fmtType = "json" THEN << >> ELSE << pretty >>,
   json |-> IF fmtType = "pretty" THEN << >> ELSE << payload >>]

\* suggestionRules: emoji, role, the alternatives of `when` (each stands
\* between two \b; "non[- ]negotiable" is written out as its two spellings)
\* and reason.
suggestionRules ==
  <<
    [emoji |-> << 55358, 56785, 8205, 55356, 57235 >>,
     role |-> "actors.student",
     when |->
       {
         << 115, 116, 117, 100, 101, 110, 116 >>,   \* "student"
         << 115, 116, 117, 100, 101, 110, 116, 115 >>,   \* "students"
         << 112, 117, 112, 105, 108 >>   \* "pupil"
       },
     reason |-> "Detected student-related language."],
    [emoji |-> << 55358, 56785, 8205, 55356, 57323 >>,
     role |-> "actors.teacher",
     when |->
       {
         << 116, 101, 97, 99, 104, 101, 114 >>,   \* "teacher"
         << 115, 116, 97, 102, 102 >>,   \* "staff"
         << 101, 100, 117, 99, 97, 116, 111, 114 >>   \* "educator"
       },
     reason |-> "Detected teacher/staff-related language."],
    [emoji |-> << 9878, 65039 >>,
     role |-> "legalPolicy.law",
     when |->
       {
         << 116, 105, 116, 108, 101, 32, 105, 120 >>,   \* "title ix"
         << 102, 101, 114, 112, 97 >>,   \* "ferpa"
         << 108, 97, 119 >>,   \* "law"
         << 112, 111, 108, 105, 99, 121 >>,   \* "policy"
         << 115, 116, 97, 116, 117, 116, 101 >>   \* "statute"
       },
     reason |-> "Detected legal / policy language."],
    [emoji |-> << 55357, 56524 >>,
     role |-> "structure.pinned",
     when |->
       {
         << 110, 111, 110, 45, 110, 101, 103, 111, 116, 105, 97, 98, 108, 101 >>,   \* "non-negotiable"
         << 110, 111, 110, 32, 110, 101, 103, 111, 116, 105, 97, 98, 108, 101 >>,   \* "non negotiable"
         << 107, 101, 121, 32, 102, 97, 99, 116 >>,   \* "key fact"
         << 99, 114, 105, 116, 105, 99, 97, 108, 32, 102, 97, 99, 116 >>   \* "critical fact"
       },
     reason |-> "Detected strong / pinned fact phrasing."],
    [emoji |-> << 55357, 56541 >>,
     role |-> "tasks.action",
     when |->
       {
         << 109, 117, 115, 116 >>,   \* "must"
         << 115, 104, 111, 117, 108, 100 >>,   \* "should"
         << 97, 99, 116, 105, 111, 110 >>,   \* "action"
         << 114, 101, 113, 117, 105, 114, 101, 100 >>   \* "required"
       },
     reason |-> "Detected required action language."],
    [emoji |-> << 9203 >>,
     role |-> "state.pending",
     when |->
       {
         << 112, 101, 110, 100, 105, 110, 103 >>,   \* "pending"
         << 97, 119, 97, 105, 116, 105, 110, 103 >>,   \* "awaiting"
         << 110, 111, 116, 32, 121, 101, 116 >>   \* "not yet"
       },
     reason |-> "Detected pending / incomplete state."],
    [emoji |-> << 9888, 65039 >>,
     role |-> "state.warning",
     when |->
       {
         << 114, 105, 115, 107 >>,   \* "risk"
         << 99, 111, 110, 99, 101, 114, 110 >>,   \* "concern"
         << 104, 97, 122, 97, 114, 100 >>,   \* "hazard"
         << 117, 110, 115, 97, 102, 101 >>   \* "unsafe"
       },
     reason |-> "Detected risk / warning language."],
    [emoji |-> << 10060 >>,
     role |-> "state.prohibited",
     when |->
       {
         << 118, 105, 111, 108, 97, 116, 105, 111, 110 >>,   \* "violation"
         << 110, 111, 110, 99, 111, 109, 112, 108, 105, 97, 110, 99, 101 >>,   \* "noncompliance"
         << 112, 114, 111, 104, 105, 98, 105, 116, 101, 100 >>   \* "prohibited"
       },
     reason |-> "Detected violation / prohibition language."]
  >>

\* \w of a regular expression.
WordChar(c) == c \in (48..57) \cup (65..90) \cup (97..122) \cup {95}

\* /\bword\b/.test(text): word occurs with a word boundary on both sides
\* (every alternative of the rules starts and ends with a word character).
WordOccurs(text, word) ==
  \E i \in 1..(Len(text) - Len(word) + 1) :
    /\ SubSeq(text, i, i + Len(word) - 1) = word
    /\ i = 1 \/ ~WordChar(text[i - 1])
    /\ i + Len(word) > Len(text) \/ ~WordChar(text[i + Len(word)])

\* rule.when.test(lower)
RegExpTest(rule, lower) == \E word \in rule.when : WordOccurs(lower, word)

\* suggestSymbolsForText: the loop over the rules from rule k on.
RECURSIVE SuggestLoop(_, _, _)
SuggestLoop(lower, k, suggestions) ==
  IF k > Len(suggestionRules) \/ ~Evaluated(suggestions) THEN suggestions
  ELSE LET rule == suggestionRules[k]
           known == \E i \in 1..Len(suggestions) :
                      /\ suggestions[i].emoji = rule.emoji
                      /\ suggestions[i].role = rule.role
       IN  SuggestLoop(lower, k + 1,
             IF RegExpTest(rule, lower) /\ ~known
             THEN Append(suggestions,
                         [emoji |-> rule.emoji, role |-> rule.role,
                          reason |-> rule.reason])
             ELSE suggestions)

\* suggestSymbolsForText(text)
suggestSymbolsForText(text) == SuggestLoop(ToLowerCase(text), 1, << >>)

\* A faulty variant: the whole array whatever the end index.
Slice_Whole(s, end) == s

\* Array.prototype.slice(0, end), end >= 0
Slice(s, end) == SubSeq(s, 1, IF end < Len(s) THEN end ELSE Len(s))

\* renderPrettySuggestions(text, suggestions, useColor)
renderPrettySuggestions(text, suggestions, useColor) ==
  [header |-> IF Len(suggestions) = 0 THEN "No SCE suggestions generated"
              ELSE "SCE Symbol Suggestions",
   input |-> text,
   lines |-> suggestions,
   color |-> useColor]

\* maxSuggestions is not in the input.
NoMaxSuggestions == 0 - 1

\* z.number().int().min(1).max(20).default(10)
ParseMaxSuggestions(n) ==
  IF n = NoMaxSuggestions THEN [raised |-> "none", value |-> 10]
  ELSE IF n < 1 \/ n > 20 THEN [raised |-> "ZodError", value |-> 0]
  ELSE [raised |-> "none", value |-> n]

\* handleSuggestTool(input), with stdout a TTY or not
handleSuggestTool(in, isTTY) ==
  LET parsed == ParseMaxSuggestions(in.maxSuggestions)
      raw == suggestSymbolsForText(in.text)
      suggestions == Slice(raw, parsed.value)
      payload == [input |-> in.text,
                  suggestionCount |-> Len(suggestions),
                  suggestions |-> suggestions]
      pretty == renderPrettySuggestions(in.text, suggestions,
                                        shouldUseColor(in.format, isTTY))
  IN  IF parsed.raised # "none"
      THEN [raised |-> parsed.raised, content |-> << >>]
      ELSE [raised |-> "none",
            content |-> Content(resolveFormatType(in.format, isTTY),
                                pretty, payload)]

HandleSuggestTool ==
  /\ input.kind = "suggest"
  /\ \E r \in { handleSuggestTool(input.value.args, input.value.isTTY) } :
       /\ ret' = r.content
       /\ Outcome("handleSuggestTool", 0, << >>, r.raised)
  /\ UNCHANGED << defs, arrays, customOntology, interpreters, defaultInstance,
                  snapshots, mutations, input >>

\* Texts of up to MaxWords words, and the calls of the tool.
SuggestWords ==
  { << 115, 116, 117, 100, 101, 110, 116 >>,        \* "student"
    << 83, 116, 117, 100, 101, 110, 116, 115 >>,    \* "Students"
    << 115, 116, 117, 100, 101, 110, 116, 115, 104, 105, 112 >>,  \* "studentship"
    << 109, 117, 115, 116 >>,                       \* "must"
    << 112, 111, 108, 105, 99, 121 >>,              \* "policy"
    << 110, 111, 110, 45, 110, 101, 103, 111, 116, 105, 97, 98, 108, 101 >> }
                                                    \* "non-negotiable"

SuggestTexts == { Join(words) : words \in SeqsUpTo(SuggestWords, MaxWords) }

FormatTypes == {"auto", "pretty", "json", "hybrid"}

SuggestCalls ==
  [text : SuggestTexts,
   maxSuggestions : { NoMaxSuggestions, 0, 1, 2, 20 },
   format : [type : FormatTypes, color : {TRUE}]]

InitSuggest ==
  /\ Loaded(<< >>) /\ Fresh
  /\ \E args \in SuggestCalls : \E isTTY \in BOOLEAN :
       input = [kind |-> "suggest", value |-> [args |-> args, isTTY |-> isTTY]]

NextSuggest == HandleSuggestTool

SpecSuggest == InitSuggest /\ [][NextSuggest]_vars

(***************************************************************************)
(* sce_validate_ontology.  A JavaScript string of the validator is the      *)
(* message record that models it; the text "Issue" is IssueText.  An issue  *)
(* handed to the renderer is a string or an object with optional message,   *)
(* path, emoji and severity (a sequence of length 0 when it has none).      *)
(***************************************************************************)
\* "Issue"
IssueText == [kind |-> "Issue", emoji |-> << >>, path |-> << >>, first |-> << >>]

\* The value of an issue that is a string: it has none of the properties
\* that the renderer reads.
StringIssue(text) ==
  [type |-> "string", text |-> text, message |-> << >>, path |-> << >>,
   emoji |-> << >>, severity |-> << >>]

\* The issues as they reach the renderer: the strings of validateOntology().
Issues(errors) == [i \in 1..Len(errors) |-> StringIssue(errors[i])]

\* issue.message ?? "Issue"
MessageOf(issue) == IF issue.message = << >> THEN IssueText ELSE issue.message[1]

\* renderPrettyValidation(issues, useColor): the header, and for every issue
\* its number, its message and its path, emoji and level lines.
renderPrettyValidation(issues, useColor) ==
  [header |-> IF Len(issues) = 0 THEN "Ontology validation: OK"
              ELSE "Ontology validation: issues detected",
   lines |-> [i \in 1..Len(issues) |->
               [number |-> i,
                message |-> MessageOf(issues[i]),
                path |-> issues[i].path,
                emoji |-> issues[i].emoji,
                level |-> issues[i].severity]],
   color |-> useColor]

\* handleValidateTool(input), with stdout a TTY or not
handleValidateTool(heap, arrs, format, isTTY) ==
  LET errors == validateOntology(heap, arrs, SchemaObject)
      payload == [valid |-> Len(errors) = 0,
                  issueCount |-> Len(errors),
                  issues |-> errors]
      pretty == renderPrettyValidation(Issues(errors),
                                       shouldUseColor(format, isTTY))
  IN  Content(resolveFormatType(format, isTTY), pretty, payload)

HandleValidateTool(format, isTTY) ==
  /\ ret' = handleValidateTool(defs, arrays, format, isTTY)
  /\ Call("handleValidateTool", 0, format.type)
  /\ UNCHANGED << defs, arrays, customOntology, interpreters, defaultInstance,
                  snapshots, mutations, input >>

\* The definitions of SemanticOntologySchema that a caller holds, having got
\* them from forEmojis, and changes.
HeldDefinitions ==
  { d \in 1..Len(CanonicalDefs) :
      CanonicalDefs[d].emoji \in { ANALYZE_EMOJI, INSIGHT_EMOJI } }

Formats == [type : FormatTypes, color : BOOLEAN]

InitServer ==
  Loaded(<< >>) /\ Constructed(<< >>) /\ input = NoInput

NextServer ==
  \/ \E format \in Formats : \E isTTY \in BOOLEAN :
       HandleValidateTool(format, isTTY)
  \/ \E emojis \in ProbeLists : ForEmojis(defaultInstance, emojis)
  \/ \E d \in HeldDefinitions : AssignField(d, "emoji")
  \/ \E d \in HeldDefinitions : MutateArray(d, "allowedContext", "pop")

SpecServer == InitServer /\ [][NextServer]_vars

(***************************************************************************)
(* Properties of the queries (specification SpecQuery).                     *)
(***************************************************************************)
\* The keys of an index, as a set.
KeySet(index) == { index[i].key : i \in 1..Len(index) }

\* The definition object an index stores under a key it holds.
Stored(index, key) ==
  index[CHOOSE i \in 1..Len(index) : index[i].key = key].value

\* The index of the interpreter the last call was made on.
CalledIndex == interpreters[op.self].index

\* How often x is an element of the sequence s.
Count(s, x) == Cardinality({ i \in 1..Len(s) : s[i] = x })

\* s occurs in text as a contiguous run of code units.
IsSubstring(s, text) ==
  \E i \in 1..(Len(text) + 1) :
    /\ i + Len(s) - 1 <= Len(text)
    /\ \A k \in 1..Len(s) : text[i + k - 1] = s[k]

\* The positions of text at which s starts.
Occurrences(s, text) ==
  { i \in 1..Len(text) :
      /\ i + Len(s) - 1 <= Len(text)
      /\ \A k \in 1..Len(s) : text[i + k - 1] = s[k] }

\* C1: forEmojis(list) returns, in input order and multiplicity, the stored
\* definition of every element of the list that is a key of the index:
\* unknown elements contribute nothing, element i of the known elements
\* yields the object stored under it, so a repeated grapheme yields the same
\* object once per occurrence.
C1_ForEmojisOrder ==
  op.name = "forEmojis" =>
    LET known == SelectSeq(op.arg, LAMBDA g : g \in KeySet(CalledIndex))
    IN /\ Len(ret) = Len(known)
       /\ \A i \in 1..Len(known) : ret[i] = Stored(CalledIndex, known[i])

\* A list with an unknown element dropped between two occurrences of one
\* known grapheme, which yield the same object twice.
C1_Witness ==
  /\ op.name = "forEmojis"
  /\ Len(op.arg) = 3 /\ Len(ret) = 2
  /\ op.arg[1] = op.arg[3]
  /\ op.arg[2] \notin KeySet(CalledIndex)
  /\ ret[1] = ret[2]

\* C2: emojiFromText(text) contains a grapheme g if and only if g is a key of
\* the index and g occurs in text as a substring, and then exactly once,
\* however often g occurs in text.
C2_EmojiFromTextMembership ==
  op.name = "emojiFromText" =>
    \A g \in (KeySet(CalledIndex) \cup QueryEmojis
                \cup { ret[i] : i \in 1..Len(ret) }) \ { Undefined } :
      Count(ret, g) =
        IF g \in KeySet(CalledIndex) /\ IsSubstring(g, op.arg) THEN 1 ELSE 0

\* A text in which a key occurs twice, not at its start, and which another
\* key of the index does not occur in.
C2_Witness ==
  /\ op.name = "emojiFromText"
  /\ \E g \in KeySet(CalledIndex) \ { Undefined } :
       /\ g # << >>
       /\ Count(ret, g) = 1
       /\ 1 \notin Occurrences(g, op.arg)
       /\ Cardinality(Occurrences(g, op.arg)) = 2
  /\ \E h \in KeySet(CalledIndex) \ { Undefined } : Count(ret, h) = 0

\* C3: forText(text) returns what forEmojis returns for emojiFromText(text).
C3_ForTextComposition ==
  op.name = "forText" =>
    ret = forEmojis(CalledIndex, emojiFromText(CalledIndex, op.arg))

\* A text that two keys of the index occur in, resolved to two definitions.
C3_Witness ==
  /\ op.name = "forText"
  /\ Len(ret) = 2 /\ ret[1] # ret[2]
  /\ Len(op.arg) = 3

(***************************************************************************)
(* Properties of copyIndex (specification SpecSnapshot).                    *)
(***************************************************************************)
\* The contents of an array field.
ArrayContents(arrs, a) ==
  IF a = AbsentArray \/ a = NotAnArray THEN << >> ELSE arrs[a]

\* A definition object as a caller reads it: its fields, and the elements of
\* its arrays.
Deep(heap, arrs, d) ==
  [fields |-> heap[d],
   allowedContext |-> ArrayContents(arrs, heap[d].allowedContext),
   conflictsWith |-> ArrayContents(arrs, heap[d].conflictsWith)]

Resolved(heap, arrs, refs) == [i \in 1..Len(refs) |-> Deep(heap, arrs, refs[i])]

\* What the queries of an interpreter answer, and what copyIndex would copy,
\* with heaps as given: the objects and their fields.
Answers(index, heap) ==
  [forEmojis |-> [emojis \in ProbeLists |-> forEmojis(index, emojis)],
   emojiFromText |-> [text \in ProbeTexts |-> emojiFromText(index, text)],
   forText |-> [text \in ProbeTexts |-> forText(index, text)],
   copyIndex |-> [i \in 1..Len(index) |-> index[i]],
   fields |-> [i \in 1..Len(index) |-> heap[index[i].value]]]

\* The definitions that forEmojis and forText return, with the elements of
\* their arrays.
DeepAnswers(index, heap, arrs) ==
  [forEmojis |->
     [emojis \in ProbeLists |-> Resolved(heap, arrs, forEmojis(index, emojis))],
   forText |->
     [text \in ProbeTexts |-> Resolved(heap, arrs, forText(index, text))]]

\* The definition objects that some interpreter's index holds.
Live ==
  UNION { { interpreters[self].index[i].value :
              i \in 1..Len(interpreters[self].index) } :
          self \in 1..Len(interpreters) }

\* What copyIndex just returned: the keys of the index in its order, each
\* with a new object whose fields equal those of the indexed definition.
SnapshotFaithful ==
  LET copy == snapshots[ret]
      index == CalledIndex
  IN  /\ Len(copy) = Len(index)
      /\ \A i \in 1..Len(index) :
           /\ copy[i].key = index[i].key
           /\ defs[copy[i].value] = defs[index[i].value]
           /\ copy[i].value \notin Live
           /\ \A j \in 1..Len(index) : j # i => copy[j].value # copy[i].value

TopLevelMutations == { "Map.set", "Map.delete", "Map.clear", "assign" }

\* C4: copyIndex returns a new Map with the keys of the index, each with a
\* distinct object of equal field values; setting, deleting or clearing
\* entries of that Map, or assigning top-level fields of its objects, changes
\* no answer of forEmojis, emojiFromText, forText or copyIndex of any
\* interpreter.
C4_SnapshotIsolation ==
  [][ /\ op'.name = "copyIndex" => SnapshotFaithful'
      /\ op'.name \in TopLevelMutations =>
           \A self \in 1..Len(interpreters) :
             Answers(interpreters'[self].index, defs')
               = Answers(interpreters[self].index, defs)
    ]_vars

\* The caller has cleared the snapshot of the default interpreter and
\* assigned a field of an object it took from it; the indexed definition
\* keeps its own value.
C4_Witness ==
  /\ op.name = "assign"
  /\ snapshots # << >> /\ snapshots[1] = << >>
  /\ \E d \in Live :
       /\ defs[d].emoji = ANALYZE_EMOJI
       /\ defs[op.arg[1]].meaning = "Modified meaning"
       /\ defs[d].meaning # "Modified meaning"

\* C5 (as stated): changing in place the allowedContext or conflictsWith
\* array of an object of the snapshot changes no definition that forEmojis
\* or forText of any interpreter returns.
C5_NestedArrayIsolation ==
  [][ op'.name \in { "push", "pop" } =>
        \A self \in 1..Len(interpreters) :
          DeepAnswers(interpreters'[self].index, defs', arrays')
            = DeepAnswers(interpreters[self].index, defs, arrays)
    ]_vars

(***************************************************************************)
(* Properties of interpreter() (specification Spec).                        *)
(***************************************************************************)
\* An index that holds exactly the definitions of SemanticOntologySchema,
\* each under its emoji.
OverCanonical(index) ==
  /\ Len(index) = Len(CanonicalDefs)
  /\ \A d \in 1..Len(CanonicalDefs) :
       \E i \in 1..Len(index) :
         index[i] = [key |-> CanonicalDefs[d].emoji, value |-> d]

\* interpreter() was just called without an argument.
DefaultRequested == op.name = "interpreter" /\ op.arg = "undefined"

\* interpreter(v) was just called with a vocabulary.
FreshRequested == op.name = "interpreter" /\ op.arg # "undefined"

\* C6: every call of interpreter() without an argument returns the default
\* instance, which is built over SemanticOntologySchema and, once created,
\* stays the same object for the rest of the run.
C6_SharedDefault ==
  [][ /\ defaultInstance # 0 => defaultInstance' = defaultInstance
      /\ SubSeq(interpreters', 1, Len(interpreters)) = interpreters
      /\ DefaultRequested' =>
           /\ ret' = defaultInstance'
           /\ ret' \in 1..Len(interpreters')
           /\ OverCanonical(interpreters'[ret'].index)
    ]_vars

\* interpreter() returns the default instance that an earlier call created,
\* after other interpreters have been constructed since.
C6_Witness ==
  /\ DefaultRequested
  /\ ret = defaultInstance
  /\ ret < Len(interpreters)
  /\ \E self \in 1..Len(interpreters) : ~OverCanonical(interpreters[self].index)

\* C7: interpreter(v) returns an interpreter constructed by this call: it is
\* none of the interpreters that existed before, it is not the default
\* instance, and the default instance is neither created nor replaced.
C7_FreshInterpreter ==
  [][ FreshRequested' =>
        /\ ret' \notin 1..Len(interpreters)
        /\ ret' \in 1..Len(interpreters')
        /\ ret' # defaultInstance'
        /\ defaultInstance' = defaultInstance
        /\ SubSeq(interpreters', 1, Len(interpreters)) = interpreters
    ]_vars

\* interpreter(SemanticOntologySchema) is called while the default instance
\* exists, and returns another instance over the same vocabulary.
C7_Witness ==
  /\ FreshRequested
  /\ op.arg = "SemanticOntologySchema"
  /\ defaultInstance # 0
  /\ ret # defaultInstance
  /\ interpreters[ret].index = interpreters[defaultInstance].index

(***************************************************************************)
(* Properties of validateOntology (specification SpecValidate).             *)
(***************************************************************************)
\* The ontology that the last call of validateOntology validated.
Validated ==
  OntologyAt(IF op.arg = "undefined" THEN "SemanticOntologySchema" ELSE op.arg)

\* The definitions of an ontology in category-then-key traversal order, each
\* with its path.
Traversal(ontology) ==
  [p \in 1..EntriesBefore(ontology, Len(ontology)) |->
     LET c == CHOOSE c \in 1..Len(ontology) :
                /\ EntriesBefore(ontology, c - 1) < p
                /\ p <= EntriesBefore(ontology, c)
         entry == ontology[c].entries[p - EntriesBefore(ontology, c - 1)]
     IN  [path |-> << ontology[c].name, entry.key >>, def |-> entry.def]]

Least(S) == CHOOSE x \in S : \A y \in S : x <= y

\* The messages of one kind, in the order of the result.
MessagesOf(kind) == SelectSeq(ret, LAMBDA m : m.kind = kind)

\* How often a message of a kind names a path.
MessagesAt(kind, path) ==
  Cardinality({ n \in 1..Len(MessagesOf(kind)) : MessagesOf(kind)[n].path = path })

\* C8: validateOntology() without an argument validates SemanticOntologySchema
\* and returns no message; in SemanticOntologySchema as declared every emoji
\* is a non-empty string, no two definitions have the same emoji, and every
\* allowedContext is a non-empty array.
C8_CanonicalValid ==
  /\ op.name = "validateOntology" /\ op.arg = "undefined" => ret = << >>
  /\ \A d \in 1..Len(CanonicalDefs) :
       /\ defs[d].emoji # Undefined /\ defs[d].emoji # << >>
       /\ defs[d].allowedContext \notin { AbsentArray, NotAnArray }
       /\ arrays[defs[d].allowedContext] # << >>
       /\ \A e \in 1..Len(CanonicalDefs) :
            e # d => defs[e].emoji # defs[d].emoji

\* validateOntology() has returned no message although the caller's own
\* ontology is one that validateOntology has messages for.
C8_Witness ==
  /\ op.name = "validateOntology" /\ op.arg = "undefined"
  /\ ret = << >>
  /\ validateOntology(defs, arrays, customOntology) # << >>

\* The emoji of the definition at position j of the traversal.
EmojiAt(t, j) == defs[t[j].def].emoji

\* The earlier positions of the traversal that bear the emoji of position j.
Earlier(t, j) == { i \in 1..(j - 1) : EmojiAt(t, i) = EmojiAt(t, j) }

\* An emoji as a template literal prints it.
Printed(emoji) == IF emoji = Undefined THEN UndefinedText ELSE emoji

\* C9: validateOntology emits exactly one Duplicate message for each
\* definition whose emoji occurred at an earlier definition of the traversal,
\* naming that emoji, the definition's path and the path of the first
\* definition of the traversal that bears the emoji; it emits no Duplicate
\* message for a first occurrence.
C9_DuplicateMessages ==
  op.name = "validateOntology" =>
    LET t == Traversal(Validated)
        duplicates == MessagesOf("Duplicate emoji")
    IN  /\ \A j \in 1..Len(t) :
             MessagesAt("Duplicate emoji", t[j].path) =
               IF Earlier(t, j) # {} THEN 1 ELSE 0
        /\ \A n \in 1..Len(duplicates) :
             \E j \in 1..Len(t) :
               /\ Earlier(t, j) # {}
               /\ duplicates[n] =
                    [kind |-> "Duplicate emoji",
                     emoji |-> Printed(EmojiAt(t, j)),
                     path |-> t[j].path,
                     first |-> t[Least(Earlier(t, j))].path]

\* An ontology with three definitions of one non-empty emoji, in two
\* categories: the second and the third are reported, both against the first.
C9_Witness ==
  /\ op.name = "validateOntology" /\ op.arg = "customOntology"
  /\ LET t == Traversal(customOntology)
         duplicates == MessagesOf("Duplicate emoji")
     IN  /\ Len(t) = 3 /\ Len(duplicates) = 2
         /\ EmojiAt(t, 1) = << 1 >>
         /\ t[1].path[1] # t[3].path[1]
         /\ duplicates[1].first = t[1].path
         /\ duplicates[2].first = t[1].path
         /\ duplicates[2].path = t[3].path

\* C10: validateOntology emits Missing emoji exactly once for each definition
\* whose emoji is missing or the empty string, with the definition's path,
\* and for no definition whose emoji is a non-empty string.
C10_MissingMessages ==
  op.name = "validateOntology" =>
    LET t == Traversal(Validated)
        missing == MessagesOf("Missing emoji")
        Lacking(j) == EmojiAt(t, j) = Undefined
                        \/ Len(EmojiAt(t, j)) = 0
    IN  /\ \A j \in 1..Len(t) :
             MessagesAt("Missing emoji", t[j].path) = IF Lacking(j) THEN 1 ELSE 0
        /\ \A n \in 1..Len(missing) :
             \E j \in 1..Len(t) : Lacking(j) /\ missing[n].path = t[j].path

\* An ontology with a definition without emoji, one with the empty string and
\* one with a non-empty emoji: two Missing messages, none for the third.
C10_Witness ==
  /\ op.name = "validateOntology" /\ op.arg = "customOntology"
  /\ LET t == Traversal(customOntology)
     IN  /\ Len(t) = 3
         /\ \E i, j, k \in 1..3 :
              /\ EmojiAt(t, i) = Undefined
              /\ EmojiAt(t, j) = << >>
              /\ EmojiAt(t, k) = << 1 >>
              /\ MessagesAt("Missing emoji", t[i].path) = 1
              /\ MessagesAt("Missing emoji", t[j].path) = 1
              /\ MessagesAt("Missing emoji", t[k].path) = 0
         /\ Len(MessagesOf("Missing emoji")) = 2

\* The allowedContext of the definition at position j of the traversal is
\* absent, no array, or an array without elements.
WithoutContext(t, j) ==
  \/ defs[t[j].def].allowedContext = AbsentArray
  \/ defs[t[j].def].allowedContext = NotAnArray
  \/ Len(arrays[defs[t[j].def].allowedContext]) = 0

\* C11: validateOntology emits the allowedContext message exactly once for
\* each definition whose allowedContext is absent, no array or an empty
\* array, with the definition's path, and for no definition whose
\* allowedContext is an array with at least one element.
C11_ContextMessages ==
  op.name = "validateOntology" =>
    LET t == Traversal(Validated)
        context == MessagesOf("allowedContext must be non-empty array")
    IN  /\ \A j \in 1..Len(t) :
             MessagesAt("allowedContext must be non-empty array", t[j].path) =
               IF WithoutContext(t, j) THEN 1 ELSE 0
        /\ \A n \in 1..Len(context) :
             \E j \in 1..Len(t) :
               WithoutContext(t, j) /\ context[n].path = t[j].path

\* An ontology with a definition without allowedContext, one whose
\* allowedContext is no array and one with a one-element array: two
\* messages, none for the third.
C11_Witness ==
  /\ op.name = "validateOntology" /\ op.arg = "customOntology"
  /\ LET t == Traversal(customOntology)
     IN  /\ Len(t) = 3
         /\ \E i, j, k \in 1..3 :
              /\ defs[t[i].def].allowedContext = AbsentArray
              /\ defs[t[j].def].allowedContext = NotAnArray
              /\ ~WithoutContext(t, k)
              /\ MessagesAt("allowedContext must be non-empty array", t[i].path) = 1
              /\ MessagesAt("allowedContext must be non-empty array", t[j].path) = 1
              /\ MessagesAt("allowedContext must be non-empty array", t[k].path) = 0
         /\ Len(MessagesOf("allowedContext must be non-empty array")) = 2

\* The data-model requirements on an ontology: every emoji is a non-empty
\* string, no two definitions bear the same emoji, every allowedContext is a
\* non-empty array, and every category holds a definition.
MeetsDataModel(ontology) ==
  LET t == Traversal(ontology)
  IN  /\ \A j \in 1..Len(t) :
           /\ EmojiAt(t, j) # Undefined /\ EmojiAt(t, j) # << >>
           /\ Earlier(t, j) = {}
           /\ ~WithoutContext(t, j)
      /\ \A c \in 1..Len(ontology) : ontology[c].entries # << >>

\* C12 (as stated): validateOntology returns the empty list only for an
\* ontology that meets the data-model requirements.
C12_EmptyMeansValid ==
  op.name = "validateOntology" /\ ret = << >> => MeetsDataModel(Validated)

(***************************************************************************)
(* Properties of index construction (specification SpecQuery).              *)
(***************************************************************************)
\* The ontology an interpreter of SpecQuery was constructed over.
OntologyOf(self) ==
  IF self = defaultInstance THEN SchemaObject ELSE customOntology

\* The last position of the traversal that bears an emoji.
LastBearing(t, g) ==
  CHOOSE j \in 1..Len(t) :
    /\ EmojiAt(t, j) = g
    /\ \A i \in 1..Len(t) : EmojiAt(t, i) = g => i <= j

\* C13: the index of an interpreter built over the caller's ontology holds
\* exactly one entry for each emoji of the ontology, also for an emoji that
\* several definitions share; the entry is the definition that comes last
\* in category-then-key traversal order, and forEmojis([g]) returns exactly
\* that definition.
C13_LastWriteWins ==
  \A self \in 1..Len(interpreters) \ { defaultInstance } :
    LET t == Traversal(OntologyOf(self))
        index == interpreters[self].index
    IN  /\ \A i \in 1..Len(index) : \E j \in 1..Len(t) : index[i].key = EmojiAt(t, j)
        /\ \A j \in 1..Len(t) :
             /\ Cardinality({ i \in 1..Len(index) : index[i].key = EmojiAt(t, j) }) = 1
             /\ Stored(index, EmojiAt(t, j)) = t[LastBearing(t, EmojiAt(t, j))].def
        /\ op.name = "forEmojis" /\ op.self = self /\ Len(op.arg) = 1
             /\ op.arg[1] \in KeySet(index)
           => ret = << t[LastBearing(t, op.arg[1])].def >>

\* Two definitions in different categories share an emoji; the index holds
\* one entry and forEmojis of that emoji returns the second definition.
C13_Witness ==
  /\ op.name = "forEmojis" /\ op.self # defaultInstance
  /\ LET t == Traversal(customOntology)
     IN  /\ Len(t) = 2
         /\ EmojiAt(t, 1) = EmojiAt(t, 2)
         /\ op.arg = << EmojiAt(t, 1) >>
         /\ t[1].path[1] # t[2].path[1]
         /\ Len(CalledIndex) = 1
         /\ ret = << t[2].def >>

\* C14 (as stated): for every interpreter, emojiFromText("") and forText("")
\* return the empty list.
C14_EmptyTextEmptyResult ==
  op.name \in { "emojiFromText", "forText" } /\ op.arg = << >> => ret = << >>

C16_NoFalsePositives ==
  (op.name = "forText" /\ op.self = defaultInstance /\ op.arg \in CanonicalEmojis)
    => \E d \in 1..Len(CanonicalDefs) :
         CanonicalDefs[d].emoji = op.arg /\ ret = << d >>

\* interpreter(): the instance it returns and the index that instance holds.
DefaultResolver == interpreter("undefined").instance
DefaultIndex == interpreter("undefined").interpreters[DefaultResolver].index

\* C17: the free functions are the methods of the default interpreter:
\* getDefinitionsForEmojis(x) = interpreter().forEmojis(x),
\* extractEmojisFromText(t) = interpreter().emojiFromText(t) and
\* getDefinitionsFromText(t) = interpreter().forText(t), and each ran against
\* the very instance that interpreter() returns.
C17_FreeFunctions ==
  /\ op.name = "getDefinitionsForEmojis"
       => /\ op.self = DefaultResolver
          /\ ret = forEmojis(DefaultIndex, op.arg)
  /\ op.name = "extractEmojisFromText"
       => /\ op.self = DefaultResolver
          /\ ret = emojiFromText(DefaultIndex, op.arg)
  /\ op.name = "getDefinitionsFromText"
       => /\ op.self = DefaultResolver
          /\ ret = forText(DefaultIndex, op.arg)

\* getDefinitionsForEmojis has answered a list with a repeated and an unknown
\* emoji while a second interpreter over the canonical ontology exists.
C17_Witness ==
  /\ op.name = "getDefinitionsForEmojis"
  /\ Len(ret) = 3
  /\ Len(interpreters) >= 2
  /\ op.self = defaultInstance

(***************************************************************************)
(* Required metadata (specification SpecMetadata).                         *)
(***************************************************************************)
\* The definition object lacks one of the seven required fields.
Lacks(def) ==
  \/ def.emoji = Undefined
  \/ def.role = AbsentField
  \/ def.meaning = AbsentField
  \/ def.allowedContext = AbsentArray
  \/ def.usage = AbsentField
  \/ def.conflictsWith = AbsentArray
  \/ def.example = AbsentField

\* C18: validateOntology reports at least one diagnostic for an ontology in
\* which some definition lacks a required metadata field (emoji, role,
\* meaning, allowedContext, usage, conflictsWith or example).
C18_MissingFieldReported ==
  (/\ op.name = "validateOntology"
   /\ op.arg = "customOntology"
   /\ \E j \in 1..Len(Traversal(customOntology)) :
        Lacks(defs[Traversal(customOntology)[j].def]))
    => ret # << >>

(***************************************************************************)
(* The conflictsWith relation of the canonical ontology.                   *)
(***************************************************************************)
\* The definition object a lists the emoji of the definition object b in
\* its conflictsWith.
ConflictsWith(a, b) ==
  LET listed == ArrayContents(arrays, defs[a].conflictsWith)
  IN  \E i \in 1..Len(listed) : listed[i] = defs[b].emoji

\* C19: in the canonical ontology conflictsWith is symmetric: whenever the
\* definition of A lists the emoji of B, the definition of B lists the emoji
\* of A.
C19_ConflictsSymmetric ==
  \A a \in 1..Len(CanonicalDefs) : \A b \in 1..Len(CanonicalDefs) :
    ConflictsWith(a, b) => ConflictsWith(b, a)

(***************************************************************************)
(* The exit code of the CLI (specification SpecCli).                       *)
(***************************************************************************)
\* The command line asks for help: no arguments, help, -h or --help.
HelpRun ==
  LET args == input.value.args
  IN  args = << >>
        \/ ToLowerCase(args[1]) \in { HelpWord, ShortHelpFlag, LongHelpFlag }

\* The text given on the command line: what follows explain or json, else
\* all the arguments.
TextArgument ==
  LET args == input.value.args
  IN  IF ToLowerCase(args[1]) \in { ExplainWord, JsonWord }
      THEN Join(Tail(args)) ELSE Join(args)

OnlyWhiteSpace(s) == \A i \in 1..Len(s) : IsWhiteSpace(s[i])

\* An explain or json run without input text.
NoInputText ==
  /\ ~HelpRun
  /\ OnlyWhiteSpace(TextArgument)
  /\ input.value.stdin.isTTY \/ OnlyWhiteSpace(input.value.stdin.data)

C20_WitnessNoSymbol ==
  /\ op.name = "main"
  /\ ret.exitCode = 0
  /\ ret.printed = "json"
  /\ ret.defs = << >>
  /\ TextArgument = << 120 >>

\* The first argument is none of explain, json, help, -h, --help.
UnrecognisedCommand ==
  /\ input.value.args # << >>
  /\ ToLowerCase(input.value.args[1])
       \notin { ExplainWord, JsonWord, HelpWord, ShortHelpFlag, LongHelpFlag }

\* C21: a run whose first argument is not a recognised command, such as
\* `sce validate`, is an invalid command and ends with exit code 1.
C21_InvalidCommand ==
  (op.name = "main" /\ UnrecognisedCommand) => ret.exitCode = 1

(***************************************************************************)
(* sce_suggest_symbols (specification SpecSuggest).                        *)
(***************************************************************************)
\* The rules some alternative of which occurs in the text as a whole word,
\* without regard to case.
MatchingRules(text) ==
  { k \in 1..Len(suggestionRules) :
      \E word \in suggestionRules[k].when : WordOccurs(ToLowerCase(text), word) }

\* The list names each rule of the set once, in the order of the table.
InTableOrder(list, rules) ==
  /\ Len(list) = Cardinality(rules)
  /\ \A i \in 1..Len(list) :
       \E k \in rules :
         /\ list[i].emoji = suggestionRules[k].emoji
         /\ list[i].role = suggestionRules[k].role
         /\ Cardinality({ j \in rules : j < k }) = i - 1

\* The limit of the call: maxSuggestions, 10 when not given.
SuggestLimit ==
  IF input.value.args.maxSuggestions = NoMaxSuggestions THEN 10
  ELSE input.value.args.maxSuggestions

\* The suggestions of the answer: those of the payload, else the rendered.
Suggested ==
  IF ret.json # << >> THEN ret.json[1].suggestions ELSE ret.pretty[1].lines

\* C22: handleSuggestTool returns at most maxSuggestions suggestions (10 when
\* not given), suggestionCount is the number of suggestions returned, and
\* the suggestions are a prefix of suggestSymbolsForText(text), which names
\* each matching rule once, in rule-table order, however often its keywords
\* occur in the text.
C22_SuggestionLimit ==
  (op.name = "handleSuggestTool" /\ op.raised = "none") =>
    LET all == suggestSymbolsForText(input.value.args.text)
    IN  /\ Len(Suggested) <= SuggestLimit
        /\ ret.json # << >> =>
             ret.json[1].suggestionCount = Len(ret.json[1].suggestions)
        /\ ret.pretty # << >> /\ ret.json # << >> =>
             ret.pretty[1].lines = ret.json[1].suggestions
        /\ Len(Suggested) <= Len(all)
        /\ Suggested = SubSeq(all, 1, Len(Suggested))
        /\ InTableOrder(all, MatchingRules(input.value.args.text))

\* "student must" with maxSuggestions 1 in JSON format: two rules match and
\* one suggestion is returned.
C22_Witness ==
  /\ op.name = "handleSuggestTool" /\ op.raised = "none"
  /\ input.value.args.maxSuggestions = 1
  /\ Cardinality(MatchingRules(input.value.args.text)) = 2
  /\ ret.json # << >>
  /\ ret.json[1].suggestionCount = 1

\* "student Students" repeats the keywords of one rule, which is suggested
\* once.
C22_WitnessRepeated ==
  /\ op.name = "handleSuggestTool" /\ op.raised = "none"
  /\ input.value.args.text =
       << 115, 116, 117, 100, 101, 110, 116, 32,
          83, 116, 117, 100, 101, 110, 116, 115 >>
  /\ Len(Suggested) = 1

(***************************************************************************)
(* The default instance (specification SpecCanonical).                     *)
(***************************************************************************)
\* The call that op records goes through SceOntologyInterpreter.Default.
DefaultBound(call) ==
  \/ call.name = "interpreter" /\ call.arg = "undefined"
  \/ call.name \in { "getDefinitionsForEmojis", "extractEmojisFromText",
                     "getDefinitionsFromText" }

\* C23: the default interpreter does not exist until the first call of
\* interpreter() without argument or of a free function, that call
\* constructs it, and whatever the order of the calls it is constructed
\* once: afterwards it is never reset and never replaced.
C23_LazyDefault ==
  [][ /\ (defaultInstance = 0 /\ defaultInstance' # 0)
           => /\ DefaultBound(op')
              /\ defaultInstance' = Len(interpreters) + 1
              /\ Len(interpreters') = Len(interpreters) + 1
      /\ (defaultInstance = 0 /\ DefaultBound(op')) => defaultInstance' # 0
      /\ defaultInstance # 0
           => /\ defaultInstance' = defaultInstance
              /\ interpreters'[defaultInstance] = interpreters[defaultInstance]
              /\ DefaultBound(op') => interpreters' = interpreters
    ]_vars

\* A free function has constructed the default instance after an
\* interpreter over the canonical ontology was constructed, and a further
\* interpreter was constructed after it.
C23_Witness ==
  /\ defaultInstance = 2
  /\ Len(interpreters) = 3
  /\ DefaultBound(op)
  /\ op.name # "interpreter"

(***************************************************************************)
(* Queries change nothing (specification SpecTotal).                       *)
(***************************************************************************)
Queries == { "forEmojis", "emojiFromText", "forText", "copyIndex" }

\* C24: forEmojis, emojiFromText, forText and copyIndex are read-only: a
\* call changes no interpreter's index (keys, their order, the definitions
\* they map to), no definition object and no array of the ontology it was
\* built from, so every query of the interpreter answers after the call what
\* it answered before.
C24_QueriesReadOnly ==
  [][ op'.name \in Queries =>
        /\ interpreters' = interpreters
        /\ defaultInstance' = defaultInstance
        /\ customOntology' = customOntology
        /\ arrays' = arrays
        /\ Len(defs') >= Len(defs)
        /\ \A d \in 1..Len(defs) : defs'[d] = defs[d]
        /\ Answers(interpreters'[op'.self].index, defs')
             = Answers(interpreters[op'.self].index, defs)
    ]_vars

\* forText has answered after copyIndex was called on an interpreter over an
\* ontology with two definitions.
C24_Witness ==
  /\ op.name = "forText"
  /\ snapshots # << >>
  /\ Len(interpreters[op.self].index) = 2
  /\ ret # << >>

(***************************************************************************)
(* The order of the messages (specification SpecValidate).                 *)
(***************************************************************************)
\* The place of a kind of message among the messages of one definition.
KindRank(kind) ==
  CASE kind = "Missing emoji" -> 1
    [] kind = "Duplicate emoji" -> 2
    [] OTHER -> 3

\* The position in the traversal of the definition that a message names.
PositionOf(t, m) == CHOOSE j \in 1..Len(t) : t[j].path = m.path

\* C25: the messages come in category-then-key traversal order of the
\* definitions and, for one definition, in the order Missing emoji,
\* Duplicate emoji, allowedContext; one definition can have all three.
C25_MessageOrder ==
  op.name = "validateOntology" =>
    LET t == Traversal(Validated)
    IN  \A n \in 1..(Len(ret) - 1) :
          LET here == PositionOf(t, ret[n])
              next == PositionOf(t, ret[n + 1])
          IN  \/ here < next
              \/ /\ here = next
                 /\ KindRank(ret[n].kind) < KindRank(ret[n + 1].kind)

\* The second definition has the empty emoji of the first and an empty
\* allowedContext: Missing, Duplicate and allowedContext for its path, in
\* this order, end the result.
C25_Witness ==
  /\ op.name = "validateOntology" /\ op.arg = "customOntology"
  /\ LET t == Traversal(customOntology)
         n == Len(ret)
     IN  /\ Len(t) = 2
         /\ EmojiAt(t, 1) = << >> /\ EmojiAt(t, 2) = << >>
         /\ n >= 4
         /\ ret[n - 2].kind = "Missing emoji" /\ ret[n - 2].path = t[2].path
         /\ ret[n - 1].kind = "Duplicate emoji" /\ ret[n - 1].path = t[2].path
         /\ ret[n].kind \notin { "Missing emoji", "Duplicate emoji" }
         /\ ret[n].path = t[2].path

(***************************************************************************)
(* validateOntology changes nothing (specification Spec).                  *)
(***************************************************************************)
\* C26: validateOntology, with or without an argument, constructs no
\* interpreter and no index, leaves the default instance as it was (an
\* unset one stays unset), changes no ontology, definition or array, and a
\* call that follows a call on the same ontology returns an equal list.
C26_ValidatorReadOnly ==
  [][ op'.name = "validateOntology" =>
        /\ interpreters' = interpreters
        /\ defaultInstance' = defaultInstance
        /\ customOntology' = customOntology
        /\ defs' = defs
        /\ arrays' = arrays
        /\ snapshots' = snapshots
        /\ (op.name = "validateOntology" /\ op.arg = op'.arg) => ret' = ret
    ]_vars

\* validateOntology has returned messages for the caller's ontology while
\* the default instance is unset and no interpreter exists.
C26_Witness ==
  /\ op.name = "validateOntology" /\ op.arg = "customOntology"
  /\ ret # << >>
  /\ defaultInstance = 0
  /\ interpreters = << >>

(***************************************************************************)
(* The output of sce_validate_ontology (specification SpecServer).         *)
(***************************************************************************)
\* C27: in pretty and hybrid format the output of the tool has, for each
\* message that validateOntology() returns, the text of that message next to
\* its issue number.
C27_PrettyShowsMessages ==
  (op.name = "handleValidateTool" /\ op.arg \in { "pretty", "hybrid" }) =>
    LET errors == validateOntology(defs, arrays, SchemaObject)
    IN  /\ ret.pretty # << >>
        /\ Len(ret.pretty[1].lines) = Len(errors)
        /\ \A i \in 1..Len(errors) :
             /\ ret.pretty[1].lines[i].number = i
             /\ ret.pretty[1].lines[i].message = errors[i]

(***************************************************************************)
(* Order of the scan results (specification SpecQuery).                     *)
(***************************************************************************)
\* A key occurs in a text, as text.includes finds it.
Known(k, text) == IsSubstring(StringOf(k), text)

\* Two texts contain the same set of the keys of an index.
SameKnown(index, u, v) ==
  \A i \in 1..Len(index) : Known(index[i].key, u) <=> Known(index[i].key, v)

\* The texts a text is compared with: the text repeated, and every query
\* text of at most one symbol of two code units and one more code unit, which
\* hold the same symbols at other positions and in other numbers.
ComparedTexts(text) ==
  { text \o text } \cup { u \in QueryTexts : Len(u) <= Len(ANALYZE_EMOJI) + 1 }

\* The first position of the traversal that bears an emoji.
FirstBearing(t, g) == Least({ j \in 1..Len(t) : EmojiAt(t, j) = g })

C28_WitnessForText ==
  /\ op.name = "forText" /\ Len(ret) = 2 /\ ret[1] # ret[2]
  /\ LET keys == MapKeys(CalledIndex)
     IN  /\ defs[ret[1]].emoji = keys[1] /\ defs[ret[2]].emoji = keys[2]
         /\ keys[1] # Undefined /\ keys[2] # Undefined
         /\ \A i \in Occurrences(keys[1], op.arg) :
              \E j \in Occurrences(keys[2], op.arg) : j < i

(***************************************************************************)
(* The validator and the index (specification SpecValidate).               *)
(***************************************************************************)
\* The number of Duplicate messages among the messages.
Duplicates(errors) ==
  Cardinality({ n \in 1..Len(errors) : errors[n].kind = "Duplicate emoji" })

\* C29: the number of Duplicate messages of validateOntology(v) is the number
\* of definitions of v less the number of entries of the index built from v;
\* when there is no Duplicate message the index has one entry for each
\* definition, and forEmojis([d.emoji]) is exactly [d] for every definition d
\* of v.
C29_DuplicatesAgree ==
  (op.name = "validateOntology" /\ op.raised = "none") =>
    LET t == Traversal(Validated)
        index == buildEmojiIndex(defs, Validated)
    IN  /\ Duplicates(ret) = Len(t) - Len(index)
        /\ Duplicates(ret) = 0 =>
             /\ Len(index) = Len(t)
             /\ \A j \in 1..Len(t) :
                  forEmojis(index, << EmojiAt(t, j) >>) = << t[j].def >>

\* Three definitions of the caller's ontology, two of them without emoji:
\* one Duplicate message, and an index of two entries.
C29_Witness ==
  /\ op.name = "validateOntology" /\ op.raised = "none"
  /\ op.arg = "customOntology"
  /\ LET t == Traversal(customOntology)
     IN  /\ Len(t) = 3
         /\ Cardinality({ j \in 1..3 : EmojiAt(t, j) = Undefined }) = 2
         /\ Duplicates(ret) = 1
         /\ Len(buildEmojiIndex(defs, customOntology)) = 2

\* No Duplicate message for three definitions, one of them without emoji:
\* the index resolves the emoji of each to the definition itself.
C29_WitnessNoDuplicate ==
  /\ op.name = "validateOntology" /\ op.raised = "none"
  /\ op.arg = "customOntology"
  /\ LET t == Traversal(customOntology)
         index == buildEmojiIndex(defs, customOntology)
     IN  /\ Len(t) = 3 /\ Len(index) = 3
         /\ \E j \in 1..3 : EmojiAt(t, j) = Undefined
         /\ Duplicates(ret) = 0
         /\ \A j \in 1..3 : forEmojis(index, << EmojiAt(t, j) >>) = << t[j].def >>

(***************************************************************************)
(* The index holds the objects of the ontology (specification SpecTotal).  *)
(***************************************************************************)
\* The definition objects an ontology holds.
Held(ontology) ==
  UNION { { ontology[c].entries[k].def : k \in 1..Len(ontology[c].entries) } :
            c \in 1..Len(ontology) }

\* C30: every definition that forEmojis or forText returns is the very
\* object the ontology passed at construction holds under that emoji, so
\* every interpreter built over the same ontology object answers the same
\* call with the same objects; only the Map of copyIndex holds other objects,
\* one new object for each entry.
C30_References ==
  /\ op.name \in { "forEmojis", "forText" } =>
       /\ \A i \in 1..Len(ret) :
            /\ ret[i] \in Held(customOntology)
            /\ ret[i] = Stored(CalledIndex, defs[ret[i]].emoji)
       /\ \A other \in 1..Len(interpreters) :
            ret = IF op.name = "forEmojis"
                  THEN forEmojis(interpreters[other].index, op.arg)
                  ELSE forText(interpreters[other].index, op.arg)
  /\ \A self \in 1..Len(interpreters) :
       \A i \in 1..Len(interpreters[self].index) :
         interpreters[self].index[i].value \in Held(customOntology)
  /\ \A s \in 1..Len(snapshots) :
       \A i \in 1..Len(snapshots[s]) :
         /\ snapshots[s][i].value \notin Held(customOntology)
         /\ \A k \in 1..Len(snapshots[s]) :
              snapshots[s][k].value = snapshots[s][i].value => k = i

\* Two interpreters over the caller's ontology, and a snapshot of one of
\* them: forEmojis returns an object of the ontology, which the other
\* interpreter returns as well and of which the snapshot holds a copy under
\* the same key.
C30_Witness ==
  /\ op.name = "forEmojis" /\ ret # << >>
  /\ Len(interpreters) = 2 /\ snapshots # << >>
  /\ ret[1] \in Held(customOntology)
  /\ forEmojis(interpreters[3 - op.self].index, op.arg) = ret
  /\ \E i \in 1..Len(snapshots[1]) :
       /\ snapshots[1][i].key = defs[ret[1]].emoji
       /\ snapshots[1][i].value # ret[1]
       /\ defs[snapshots[1][i].value] = defs[ret[1]]
=============================================================================
